---- MODULE Spec2Model ----
(***************************************************************************)
(* Access-control layer of alx-polly: the in-memory rate limiter, the      *)
(* authentication server actions (login / register / logout / resend) and  *)
(* the session middleware (updateSession).                                 *)
(*                                                                         *)
(* Time is counted in units of 5 minutes, the period of the limiter's      *)
(* cleanup timer: 15 minutes = 3, 60 minutes = 12.                         *)
(***************************************************************************)
EXTENDS Integers, Sequences, FiniteSets, TLC

\* ------------------------------------------------------------------ bounds
MaxTime == 5
\* Checks a key may receive beyond its budget.
MaxOver == 2
\* Invocations in flight together, and how far time runs while they are.
MaxInFlight == 2
MaxConcurrentTime == 3
\* How far time runs when entries are left to age.
MaxSweepTime == 14
\* Polls ever created, votes ever cast.
MaxPolls == 2
MaxVotes == 2
\* Tail length of the passwords tried, and length of the names tried.
MaxTail == 4
MaxName == 3
\* Auth-state-change events one AuthProvider receives.
MaxEvents == 4

\* ------------------------------------------------------- program constants
LOGIN_MAX_ATTEMPTS == 5
LOGIN_WINDOW == 3
REGISTER_MAX_ATTEMPTS == 3
REGISTER_WINDOW == 12
RETENTION == 12
SWEEP_PERIOD == 1

\* ------------------------------------------------------------- identifiers
\* A rate-limit key `${action}:${clientIP}` is the pair <<action, clientIP>>.
\* Strings the code takes apart (header values, addresses, form fields) are
\* sequences of one-character strings.
Unknown == <<"u", "n", "k", "n", "o", "w", "n">>
Addr7 == <<"7">>
RateKeyShared(action, clientIP) == <<"login", clientIP>>
RateKey(action, clientIP) == <<action, clientIP>>
LimiterKeys == {RateKey("login", Addr7), RateKey("register", Addr7)}
NoKey == RateKey("none", <<>>)

\* The budget each caller passes for a key (login: 5 per 15 minutes,
\* register: 3 per 60 minutes).
MaxAttemptsOf(identifier) ==
    IF identifier[1] = "login" THEN LOGIN_MAX_ATTEMPTS ELSE REGISTER_MAX_ATTEMPTS
WindowOf(identifier) ==
    IF identifier[1] = "login" THEN LOGIN_WINDOW ELSE REGISTER_WINDOW

\* ------------------------------------------------------------------ strings
Whitespace == {" ", "\t", "\n", "\r"}
LowerCase == {"a", "b", "c", "d", "e", "f", "g", "h", "i", "j", "k", "l", "m",
              "n", "o", "p", "q", "r", "s", "t", "u", "v", "w", "x", "y", "z"}
UpperCase == {"A", "B", "C", "D", "E", "F", "G", "H", "I", "J", "K", "L", "M",
              "N", "O", "P", "Q", "R", "S", "T", "U", "V", "W", "X", "Y", "Z"}
Digits == {"0", "1", "2", "3", "4", "5", "6", "7", "8", "9"}
SpecialChars == {"!", "@", "#", "$", "%", "^", "&", "*", "(", ")", "_", "+", "-",
                 "=", "[", "]", "{", "}", ";", "'", ":", "\"", "\\", "|", ",", ".",
                 "<", ">", "/", "?"}

RECURSIVE TrimStart(_)
TrimStart(s) ==
    IF s # <<>> /\ Head(s) \in Whitespace THEN TrimStart(Tail(s)) ELSE s

RECURSIVE TrimEnd(_)
TrimEnd(s) ==
    IF s # <<>> /\ s[Len(s)] \in Whitespace THEN TrimEnd(SubSeq(s, 1, Len(s) - 1)) ELSE s

\* String.prototype.trim
Trim(s) == TrimEnd(TrimStart(s))

IsNotAngle(c) == c \notin {"<", ">"}

\* input.trim().replace(/[<>]/g, '')
SanitizeInput(input) == SelectSeq(Trim(input), IsNotAngle)

\* One run of [^\s@]+
EmailPart(s) ==
    /\ Len(s) >= 1
    /\ \A i \in 1..Len(s) : s[i] \notin Whitespace \cup {"@"}

\* /^[^\s@]+@[^\s@]+\.[^\s@]+$/.test(email) && email.length <= 254
ValidateEmail(email) ==
    /\ \E a \in 1..Len(email) :
          /\ email[a] = "@"
          /\ EmailPart(SubSeq(email, 1, a - 1))
          /\ \E d \in (a + 1)..Len(email) :
                /\ email[d] = "."
                /\ EmailPart(SubSeq(email, a + 1, d - 1))
                /\ EmailPart(SubSeq(email, d + 1, Len(email)))
    /\ Len(email) <= 254

\* /(?=.*[set])/.test(s): at some position the lookahead finds a character of
\* the set after any run of characters `.` matches (all but line terminators).
LineTerminators == {"\n", "\r"}
HasCharIn(s, set) ==
    \E start \in 1..(Len(s) + 1) : \E i \in start..Len(s) :
        /\ s[i] \in set
        /\ \A j \in start..(i - 1) : s[j] \notin LineTerminators

ValidatePasswordUpperFirst(password) ==
    IF Len(password) < 8
    THEN [isValid |-> FALSE, message |-> "Password must be at least 8 characters long"]
    ELSE IF Len(password) > 128
    THEN [isValid |-> FALSE, message |-> "Password must be less than 128 characters"]
    ELSE IF ~HasCharIn(password, UpperCase)
    THEN [isValid |-> FALSE, message |-> "Password must contain at least one uppercase letter"]
    ELSE IF ~HasCharIn(password, LowerCase)
    THEN [isValid |-> FALSE, message |-> "Password must contain at least one lowercase letter"]
    ELSE IF ~HasCharIn(password, Digits)
    THEN [isValid |-> FALSE, message |-> "Password must contain at least one number"]
    ELSE IF ~HasCharIn(password, SpecialChars)
    THEN [isValid |-> FALSE, message |-> "Password must contain at least one special character"]
    ELSE [isValid |-> TRUE, message |-> ""]
ValidatePassword(password) ==
    IF Len(password) < 8
    THEN [isValid |-> FALSE, message |-> "Password must be at least 8 characters long"]
    ELSE IF Len(password) > 128
    THEN [isValid |-> FALSE, message |-> "Password must be less than 128 characters"]
    ELSE IF ~HasCharIn(password, LowerCase)
    THEN [isValid |-> FALSE, message |-> "Password must contain at least one lowercase letter"]
    ELSE IF ~HasCharIn(password, UpperCase)
    THEN [isValid |-> FALSE, message |-> "Password must contain at least one uppercase letter"]
    ELSE IF ~HasCharIn(password, Digits)
    THEN [isValid |-> FALSE, message |-> "Password must contain at least one number"]
    ELSE IF ~HasCharIn(password, SpecialChars)
    THEN [isValid |-> FALSE, message |-> "Password must contain at least one special character"]
    ELSE [isValid |-> TRUE, message |-> ""]

\* /^[a-zA-Z\s'-]+$/.test(name)
NameRegexTest(name) ==
    /\ Len(name) >= 1
    /\ \A i \in 1..Len(name) :
          name[i] \in LowerCase \cup UpperCase \cup Whitespace \cup {"'", "-"}

\* forwarded.split(',')[0]
RECURSIVE FirstField(_)
FirstField(s) ==
    IF s = <<>> \/ Head(s) = "," THEN <<>> ELSE <<Head(s)>> \o FirstField(Tail(s))

GetClientIPRealFirst(headers) ==
    IF headers.realIP # <<>> THEN headers.realIP
    ELSE IF headers.forwarded # <<>> THEN Trim(FirstField(headers.forwarded))
    ELSE Unknown
GetClientIP(headers) ==
    IF headers.forwarded # <<>> THEN Trim(FirstField(headers.forwarded))
    ELSE IF headers.realIP # <<>> THEN headers.realIP
    ELSE Unknown

VARIABLES
    attemptStore,   \* Map<string, RateLimitEntry>: a function on the keys present
    now,            \* Date.now()
    lastSweep,      \* the time the cleanup timer last fired
    returned,       \* the decision the last checkRateLimit call returned
    hist,           \* history: per key with an entry, what was asked of it
    unswept,        \* history: the store as it would be had no sweep ever run
    inv,            \* the server-action invocations in flight, by slot
    accounts,       \* the identity provider's accounts, by email
    cookie,         \* the session the browser's cookies hold: none, valid, expired
    gate,           \* the request the middleware is handling, and its response
    location,       \* window.location of the browser: pathname and search
    journey,        \* history: the path whose request was redirected to this page
    polls,          \* table polls, by id
    votes,          \* table votes, in insertion order
    pollCall,       \* history: the last poll action called, and by whom
    context         \* AuthProvider: its state, its effect, and the events it saw

limiterVars == <<attemptStore, now, lastSweep, returned, hist, unswept>>
authVars == <<inv, accounts>>
gateVars == <<cookie, gate>>
pageVars == <<location, journey>>
pollVars == <<polls, votes, pollCall>>
ctxVars == <<context>>
vars == <<attemptStore, now, lastSweep, returned, hist, unswept, inv, accounts, cookie, gate,
          location, journey, polls, votes, pollCall, context>>

\* ------------------------------------------------------------ Map helpers
MapSet(m, k, v) == [x \in DOMAIN m \cup {k} |-> IF x = k THEN v ELSE m[x]]

MapDeleteAll(m, k) == [x \in {} |-> m[x]]
MapDelete(m, k) == [x \in DOMAIN m \ {k} |-> m[x]]

\* ------------------------------------------------------------ checkRateLimit
WindowExpiredLate(entry, t, windowMs) == t - entry.lastAttempt > 2 * windowMs
WindowExpired(entry, t, windowMs) == t - entry.lastAttempt > windowMs

OverLimitInclusive(count, maxAttempts) == count >= maxAttempts
OverLimit(count, maxAttempts) == count > maxAttempts

FreshEntry(t) == [count |-> 1, lastAttempt |-> t, blocked |-> FALSE]

IncrementedKeepTime(entry, t) ==
    [count |-> entry.count + 1, lastAttempt |-> entry.lastAttempt, blocked |-> entry.blocked]
IncrementedNoCount(entry, t) ==
    [count |-> entry.count, lastAttempt |-> t, blocked |-> entry.blocked]
Incremented(entry, t) ==
    [count |-> entry.count + 1, lastAttempt |-> t, blocked |-> entry.blocked]

\* The store and the decision checkRateLimit(identifier, maxAttempts, windowMs)
\* leaves when called at time t on store st.
CheckRateLimit(st, identifier, maxAttempts, windowMs, t) ==
    IF identifier \notin DOMAIN st
    THEN [store |-> MapSet(st, identifier, FreshEntry(t)),
          result |-> [allowed |-> TRUE,
                      remainingAttempts |-> maxAttempts - 1,
                      resetTime |-> t + windowMs]]
    ELSE IF WindowExpired(st[identifier], t, windowMs)
    THEN [store |-> MapSet(st, identifier, FreshEntry(t)),
          result |-> [allowed |-> TRUE,
                      remainingAttempts |-> maxAttempts - 1,
                      resetTime |-> t + windowMs]]
    ELSE LET entry == Incremented(st[identifier], t) IN
         IF OverLimit(entry.count, maxAttempts)
         THEN [store |-> MapSet(st, identifier, [entry EXCEPT !.blocked = TRUE]),
               result |-> [allowed |-> FALSE,
                           remainingAttempts |-> 0,
                           resetTime |-> entry.lastAttempt + windowMs]]
         ELSE [store |-> MapSet(st, identifier, entry),
               result |-> [allowed |-> TRUE,
                           remainingAttempts |-> maxAttempts - entry.count,
                           resetTime |-> entry.lastAttempt + windowMs]]

ClearRateLimitKept(st, identifier) == st
ClearRateLimit(st, identifier) == MapDelete(st, identifier)

\* The cleanup timer's callback: drop every entry older than one hour.
SweepStoreInclusive(st, t) ==
    [k \in {x \in DOMAIN st : ~(t - st[x].lastAttempt >= RETENTION)} |-> st[k]]
SweepStore(st, t) ==
    [k \in {x \in DOMAIN st : ~(t - st[x].lastAttempt > RETENTION)} |-> st[k]]

\* ------------------------------------------------------------------ history
\* start: the time of the check that found no live entry for the key (none, or
\* one whose last attempt lies more than the window back); calls: the checks
\* made since, that one included; last: the time of the latest check; allowed:
\* how many of those checks returned allowed.
NoReturn == [identifier |-> NoKey, allowed |-> TRUE, remainingAttempts |-> 0, resetTime |-> 0]

Live(h, identifier, t) ==
    /\ identifier \in DOMAIN h
    /\ t - h[identifier].last <= WindowOf(identifier)

HistAfterCheck(h, identifier, t, allowed) ==
    [k \in DOMAIN h \cup {identifier} |->
        IF k # identifier THEN h[k]
        ELSE IF Live(h, identifier, t)
             THEN [start |-> h[k].start, calls |-> h[k].calls + 1, last |-> t,
                   allowed |-> h[k].allowed + (IF allowed THEN 1 ELSE 0)]
             ELSE [start |-> t, calls |-> 1, last |-> t,
                   allowed |-> IF allowed THEN 1 ELSE 0]]

HistAfterClear(h, identifier) == [k \in DOMAIN h \ {identifier} |-> h[k]]

HistAfterSweep(h, t) == [k \in {x \in DOMAIN h : t - h[x].last <= RETENTION} |-> h[k]]

\* ---------------------------------------------------------- limiter actions
\* Guard that keeps the counters finite.
CanCheck(identifier) ==
    IF identifier \in DOMAIN attemptStore
    THEN attemptStore[identifier].count < MaxAttemptsOf(identifier) + MaxOver
    ELSE TRUE

DoCheck(identifier) ==
    LET r == CheckRateLimit(attemptStore, identifier, MaxAttemptsOf(identifier),
                            WindowOf(identifier), now) IN
    /\ attemptStore' = r.store
    /\ returned' = [identifier |-> identifier,
                    allowed |-> r.result.allowed,
                    remainingAttempts |-> r.result.remainingAttempts,
                    resetTime |-> r.result.resetTime]
    /\ hist' = HistAfterCheck(hist, identifier, now, r.result.allowed)
    /\ unswept' = CheckRateLimit(unswept, identifier, MaxAttemptsOf(identifier),
                                 WindowOf(identifier), now).store

Check(identifier) ==
    /\ CanCheck(identifier)
    /\ DoCheck(identifier)
    /\ UNCHANGED <<now, lastSweep, authVars, gateVars, pageVars, pollVars, ctxVars>>

Clear(identifier) ==
    /\ attemptStore' = ClearRateLimit(attemptStore, identifier)
    /\ hist' = HistAfterClear(hist, identifier)
    /\ unswept' = ClearRateLimit(unswept, identifier)
    /\ returned' = NoReturn
    /\ UNCHANGED <<now, lastSweep, authVars, gateVars, pageVars, pollVars, ctxVars>>

\* setInterval(..., 5 minutes): the callback runs once per period.
Sweep ==
    /\ now - lastSweep >= SWEEP_PERIOD
    /\ attemptStore' = SweepStore(attemptStore, now)
    /\ hist' = HistAfterSweep(hist, now)
    /\ lastSweep' = now
    /\ returned' = NoReturn
    /\ UNCHANGED <<now, unswept, authVars, gateVars, pageVars, pollVars, ctxVars>>

Tick ==
    /\ now < MaxTime
    /\ now - lastSweep < SWEEP_PERIOD
    /\ now' = now + 1
    /\ returned' = NoReturn
    /\ UNCHANGED <<attemptStore, lastSweep, hist, unswept, authVars, gateVars, pageVars,
                   pollVars, ctxVars>>

\* Time passing over a longer span.
TickLong ==
    /\ now < MaxSweepTime
    /\ now - lastSweep < SWEEP_PERIOD
    /\ now' = now + 1
    /\ returned' = NoReturn
    /\ UNCHANGED <<attemptStore, lastSweep, hist, unswept, authVars, gateVars, pageVars,
                   pollVars, ctxVars>>

\* ------------------------------------------------------------ auth actions
Null == "null"
Slots == 1..MaxInFlight

Result(error) == [error |-> error, message |-> Null, requiresVerification |-> FALSE]
NoResult == Result("pending")

\* resetTime.toLocaleTimeString()
ToLocaleTimeString(t) == ToString(t)

LoginRateLimitMessage(resetTime) ==
    "Too many login attempts. Please try again after " \o ToLocaleTimeString(resetTime)
RegisterRateLimitMessage(resetTime) ==
    "Too many registration attempts. Please try again after " \o ToLocaleTimeString(resetTime)

NotAllowedIgnored(result) == FALSE
NotAllowed(result) == ~result.allowed

\* The checks of login between the rate limit and the provider call: the error
\* returned, or Null when the call goes on to the provider.
LoginValidation(data) ==
    IF data.email = <<>> \/ data.password = <<>>
    THEN "Email and password are required"
    ELSE IF ~ValidateEmail(SanitizeInput(data.email))
    THEN "Please enter a valid email address"
    ELSE IF Len(data.password) < 1
    THEN "Password is required"
    ELSE Null

RegisterValidation(data) ==
    IF data.email = <<>> \/ data.password = <<>> \/ data.name = <<>>
    THEN "Name, email, and password are required"
    ELSE IF ~ValidateEmail(SanitizeInput(data.email))
    THEN "Please enter a valid email address"
    ELSE IF Len(SanitizeInput(data.name)) < 2
    THEN "Name must be at least 2 characters long"
    ELSE IF Len(SanitizeInput(data.name)) > 50
    THEN "Name must be less than 50 characters long"
    ELSE IF ~NameRegexTest(SanitizeInput(data.name))
    THEN "Name can only contain letters, spaces, hyphens, and apostrophes"
    ELSE IF ~ValidatePassword(data.password).isValid
    THEN ValidatePassword(data.password).message
    ELSE Null

ResendValidation(data) ==
    IF data.email = <<>>
    THEN "Email is required"
    ELSE IF ~ValidateEmail(SanitizeInput(data.email))
    THEN "Please enter a valid email address"
    ELSE Null

\* error.message.includes(phrase): a provider message is a sequence of phrases.
Includes(message, phrase) == \E i \in 1..Len(message) : message[i] = phrase

RECURSIVE RawText(_)
RawText(message) ==
    IF message = <<>> THEN "" ELSE Head(message) \o RawText(Tail(message))

LoginErrorLastRuleFirst(message) ==
    IF Includes(message, "Too many requests")
    THEN "Too many login attempts. Please try again later"
    ELSE IF Includes(message, "Email not confirmed")
    THEN "Please verify your email address before signing in"
    ELSE IF Includes(message, "Invalid login credentials")
    THEN "Invalid email or password"
    ELSE "Authentication failed. Please try again"
LoginErrorRaw(message) == RawText(message)
LoginError(message) ==
    IF Includes(message, "Invalid login credentials")
    THEN "Invalid email or password"
    ELSE IF Includes(message, "Email not confirmed")
    THEN "Please verify your email address before signing in"
    ELSE IF Includes(message, "Too many requests")
    THEN "Too many login attempts. Please try again later"
    ELSE "Authentication failed. Please try again"

RegisterErrorNoExisting(message) ==
    IF Includes(message, "Password should be")
    THEN "Password does not meet security requirements"
    ELSE IF Includes(message, "Unable to validate email address")
    THEN "Please enter a valid email address"
    ELSE IF Includes(message, "Signup is disabled")
    THEN "Registration is currently disabled"
    ELSE "Registration failed. Please try again"
RegisterErrorRaw(message) == RawText(message)
RegisterError(message) ==
    IF Includes(message, "User already registered")
    THEN "An account with this email already exists"
    ELSE IF Includes(message, "Password should be")
    THEN "Password does not meet security requirements"
    ELSE IF Includes(message, "Unable to validate email address")
    THEN "Please enter a valid email address"
    ELSE IF Includes(message, "Signup is disabled")
    THEN "Registration is currently disabled"
    ELSE "Registration failed. Please try again"

ResendError(message) ==
    IF Includes(message, "Email rate limit exceeded")
    THEN "Too many verification emails sent. Please wait before requesting another"
    ELSE "Failed to send verification email. Please try again"

\* What login returns for the provider's response to signInWithPassword.
LoginOutcome(response) ==
    IF response.kind = "throw"
    THEN Result("An unexpected error occurred. Please try again")
    ELSE IF response.kind = "error"
    THEN Result(LoginError(response.message))
    ELSE Result(Null)

\* What register returns for the provider's response to signUp.
RegisterOutcome(response) ==
    IF response.kind = "throw"
    THEN Result("An unexpected error occurred. Please try again")
    ELSE IF response.kind = "error"
    THEN Result(RegisterError(response.message))
    ELSE IF response.user /\ ~response.session
    THEN [error |-> Null,
          message |-> "Registration successful! Please check your email to verify your account before signing in.",
          requiresVerification |-> TRUE]
    ELSE Result(Null)

LogoutOutcome(response) ==
    IF response.kind = "throw"
    THEN Result("An unexpected error occurred during sign out")
    ELSE IF response.kind = "error"
    THEN Result("Failed to sign out. Please try again")
    ELSE Result(Null)

ResendOutcome(response) ==
    IF response.kind = "throw"
    THEN Result("An unexpected error occurred. Please try again")
    ELSE IF response.kind = "error"
    THEN Result(ResendError(response.message))
    ELSE [error |-> Null,
          message |-> "Verification email sent successfully",
          requiresVerification |-> FALSE]


\* ------------------------------------------------------ identity provider
\* The provider's answers, as the actions' branches distinguish them: success
\* (with or without a user and a session), an error with a message, or a
\* thrown exception.
Ok(user, session) == [kind |-> "ok", message |-> <<>>, user |-> user, session |-> session]
ProviderError(message) ==
    [kind |-> "error", message |-> message, user |-> FALSE, session |-> FALSE]
Thrown == [kind |-> "throw", message |-> <<"fetch failed">>, user |-> FALSE, session |-> FALSE]

SignInFaults == {"none", "rate", "other", "throw"}
\* Errors whose message holds more than one of the phrases login looks for.
SignInMixedFaults == {"rate+credentials", "rate+unconfirmed", "unconfirmed+credentials"}
SignUpFaults == {"none", "weak", "invalidEmail", "disabled", "other", "throw", "empty"}
ResendFaults == {"none", "rate", "other", "throw"}
SignOutFaults == {"none", "other", "throw"}

\* supabase.auth.signInWithPassword({email, password})
SignInWithPassword(accts, email, password, fault) ==
    IF fault = "throw" THEN Thrown
    ELSE IF fault = "rate"
    THEN ProviderError(<<"AuthApiError: ", "Too many requests">>)
    ELSE IF fault = "other"
    THEN ProviderError(<<"Database error granting user">>)
    ELSE IF fault = "rate+credentials"
    THEN ProviderError(<<"Too many requests", "; ", "Invalid login credentials">>)
    ELSE IF fault = "rate+unconfirmed"
    THEN ProviderError(<<"Too many requests", "; ", "Email not confirmed">>)
    ELSE IF fault = "unconfirmed+credentials"
    THEN ProviderError(<<"Email not confirmed", "; ", "Invalid login credentials">>)
    ELSE IF email \notin DOMAIN accts
    THEN ProviderError(<<"Invalid login credentials">>)
    ELSE IF accts[email].password # password
    THEN ProviderError(<<"Invalid login credentials">>)
    ELSE IF ~accts[email].confirmed
    THEN ProviderError(<<"Email not confirmed">>)
    ELSE Ok(TRUE, TRUE)

\* supabase.auth.signUp({email, password, options})
SignUp(accts, email, password, fault, confirmRequired) ==
    IF fault = "throw" THEN Thrown
    ELSE IF fault = "weak"
    THEN ProviderError(<<"Password should be", " at least 6 characters">>)
    ELSE IF fault = "invalidEmail"
    THEN ProviderError(<<"Unable to validate email address", ": invalid format">>)
    ELSE IF fault = "disabled"
    THEN ProviderError(<<"Signup is disabled">>)
    ELSE IF fault = "other"
    THEN ProviderError(<<"Database error saving new user">>)
    ELSE IF fault = "empty"
    THEN Ok(FALSE, FALSE)
    ELSE IF email \in DOMAIN accts
    THEN ProviderError(<<"User already registered">>)
    ELSE Ok(TRUE, ~confirmRequired)

\* supabase.auth.resend({type: 'signup', email})
Resend(email, fault) ==
    IF fault = "throw" THEN Thrown
    ELSE IF fault = "rate"
    THEN ProviderError(<<"Email rate limit exceeded">>)
    ELSE IF fault = "other"
    THEN ProviderError(<<"Error sending confirmation mail">>)
    ELSE Ok(FALSE, FALSE)

\* supabase.auth.signOut()
SignOut(fault) ==
    IF fault = "throw" THEN Thrown
    ELSE IF fault = "other"
    THEN ProviderError(<<"Session from session_id claim in JWT does not exist">>)
    ELSE Ok(FALSE, FALSE)

\* Every text the provider can put into an error or an exception.
ProviderTexts ==
    {RawText(SignInWithPassword(accts, <<>>, <<>>, f).message) :
        accts \in {[e \in {} |-> 0]}, f \in SignInFaults}
    \cup {RawText(SignUp([e \in {} |-> 0], <<>>, <<>>, f, TRUE).message) : f \in SignUpFaults}
    \cup {RawText(Resend(<<>>, f).message) : f \in ResendFaults}
    \cup {RawText(SignOut(f).message) : f \in SignOutFaults}
    \cup {"User already registered", "Email not confirmed"}

\* ------------------------------------------------------------- invocations
\* Inputs.
Email1 == <<" ", "a", "@", "b", ".", "c">>
EmailSent1 == <<"a", "@", "b", ".", "c">>
EmailNoTld == <<"a", "@", "b">>
Password1 == <<"V", "a", "l", "i", "d", "1", "P", "a", "s", "s", "!">>
Password2 == <<"O", "t", "h", "e", "r", "2", "P", "a", "s", "s", "?">>
PasswordShort == <<"s", "h", "o", "r", "t", "1", "!">>
Name1 == <<"A", "l", "<">>
NameDigit == <<"A", "1">>

Form(name, email, password) == [name |-> name, email |-> email, password |-> password]
NoData == Form(<<>>, <<>>, <<>>)
LoginForms ==
    {Form(<<>>, Email1, Password1), Form(<<>>, Email1, Password2),
     Form(<<>>, EmailNoTld, Password1), Form(<<>>, Email1, <<>>)}
RegisterForms ==
    {Form(Name1, Email1, Password1), Form(Name1, Email1, PasswordShort),
     Form(NameDigit, Email1, Password1), Form(Name1, EmailNoTld, Password1),
     Form(<<>>, Email1, Password1)}
ResendForms == {Form(<<>>, Email1, <<>>), Form(<<>>, EmailNoTld, <<>>), NoData}

NoHeaders == [forwarded |-> <<>>, realIP |-> <<>>]
ForwardedHeaders == [forwarded |-> <<"7", ",", " ", "8">>, realIP |-> <<"9">>]
HeaderChoices == {ForwardedHeaders, NoHeaders}
\* Requests as different clients send them: no address header, x-real-ip
\* only, x-forwarded-for with padding around its addresses.
RealIPHeaders == [forwarded |-> <<>>, realIP |-> <<"9">>]
ForwardedPadded == [forwarded |-> <<" ", "7", " ", ",", "8">>, realIP |-> <<>>]
ClientHeaders == {NoHeaders, RealIPHeaders, ForwardedHeaders, ForwardedPadded}

\* Form fields by the hundred: every string up to a short length over a few
\* characters of each kind, behind padding that brings the length to the
\* limits the validators test.
Pad(c, n) == [i \in 1..n |-> c]

RECURSIVE SeqsOf(_, _)
SeqsOf(S, n) ==
    IF n = 0 THEN {<<>>}
    ELSE SeqsOf(S, n - 1) \cup {Append(t, c) : t \in SeqsOf(S, n - 1), c \in S}

PasswordChars == {"a", "B", "3", "!"}
PasswordPads == {0, 4, 124, 125}
Passwords ==
    {Pad(c, n) \o t : c \in {"~", "!"}, n \in PasswordPads, t \in SeqsOf(PasswordChars, MaxTail)}
        \cup {Pad("!", n) \o <<"\n", "a", "B", "3">> : n \in PasswordPads}
        \cup {Pad("~", n) \o <<"a", "\n", "B", "!">> : n \in PasswordPads}

NameChars == {"A", " ", "\t", "\n", "-", "'", "<"}
Names ==
    SeqsOf(NameChars, MaxName)
        \cup {Pad("a", 50), Pad("a", 51), <<" ">> \o Pad("a", 50) \o <<">", "\t">>}

Emails ==
    {Email1, EmailNoTld,
     <<"<", "a", "@", "b", ".", "c", ">", " ">>,
     <<"<", " ", "a", "@", "b", ".", "c">>,
     <<"a", "@", "b", ".", "c", "\t", ">">>,
     <<"a", " ", "@", "b", ".", "c">>}

FormInputs ==
    {Form(Name1, Email1, p) : p \in Passwords}
        \cup {Form(n, Email1, Password1) : n \in Names}
        \cup {Form(Name1, e, Password1) : e \in Emails}

Account(password, confirmed) == [password |-> password, confirmed |-> confirmed]
NoAccounts == [e \in {} |-> Account(<<>>, FALSE)]

IdleInv ==
    [op |-> "none", pc |-> "idle", headers |-> NoHeaders, data |-> NoData,
     result |-> NoResult, contacts |-> 0,
     limiter |-> "none", nth |-> 0, inWindow |-> FALSE,
     twin |-> NoResult, wrongPassword |-> FALSE,
     response |-> "none", providerMessage |-> <<>>,
     fault |-> "none", existed |-> FALSE]

Started(op, headers, data, pc) ==
    [IdleInv EXCEPT !.op = op, !.pc = pc, !.headers = headers, !.data = data]

Finished(r, result) == [r EXCEPT !.pc = "done", !.result = result, !.twin = result]

CanStart(i) == inv[i].pc \in {"idle", "done"}

\* login() up to `await headers()`.
LoginStart(i, headers, data) ==
    /\ CanStart(i)
    /\ inv' = [inv EXCEPT ![i] = Started("login", headers, data, "headers")]
    /\ UNCHANGED <<limiterVars, accounts, gateVars, pageVars, pollVars, ctxVars>>

\* register() up to `await headers()`.
RegisterStart(i, headers, data) ==
    /\ CanStart(i)
    /\ inv' = [inv EXCEPT ![i] = Started("register", headers, data, "headers")]
    /\ UNCHANGED <<limiterVars, accounts, gateVars, pageVars, pollVars, ctxVars>>

\* checkRateLimit called by an action: the decision is a local of the action.
Decision(key) ==
    CheckRateLimit(attemptStore, key, MaxAttemptsOf(key), WindowOf(key), now).result

CheckLocal(key) ==
    /\ attemptStore' =
         CheckRateLimit(attemptStore, key, MaxAttemptsOf(key), WindowOf(key), now).store
    /\ hist' = HistAfterCheck(hist, key, now, Decision(key).allowed)
    /\ unswept' = CheckRateLimit(unswept, key, MaxAttemptsOf(key), WindowOf(key), now).store

\* What the limiter's history says of the check just made for key.
Checked(r, key) ==
    [r EXCEPT !.limiter = IF Decision(key).allowed THEN "allowed" ELSE "denied",
              !.nth = hist'[key].calls,
              !.inWindow = (now - hist'[key].start <= WindowOf(key))]

\* login() from the resolution of headers() to `await createClient()`: one
\* synchronous stretch holding the rate-limit check and the field checks.
LoginCheck(i) ==
    LET r == inv[i]
        key == RateKey("login", GetClientIP(r.headers)) IN
    /\ r.op = "login" /\ r.pc = "headers"
    /\ CanCheck(key)
    /\ CheckLocal(key)
    /\ inv' = [inv EXCEPT ![i] =
            IF NotAllowed(Decision(key))
            THEN Finished(Checked(r, key),
                          Result(LoginRateLimitMessage(Decision(key).resetTime)))
            ELSE IF LoginValidation(r.data) # Null
            THEN Finished(Checked(r, key), Result(LoginValidation(r.data)))
            ELSE [Checked(r, key) EXCEPT !.pc = "createClient"]]
    /\ UNCHANGED <<now, lastSweep, returned, accounts, gateVars, pageVars, pollVars, ctxVars>>

RegisterCheck(i) ==
    LET r == inv[i]
        key == RateKey("register", GetClientIP(r.headers)) IN
    /\ r.op = "register" /\ r.pc = "headers"
    /\ CanCheck(key)
    /\ CheckLocal(key)
    /\ inv' = [inv EXCEPT ![i] =
            IF NotAllowed(Decision(key))
            THEN Finished(Checked(r, key),
                          Result(RegisterRateLimitMessage(Decision(key).resetTime)))
            ELSE IF RegisterValidation(r.data) # Null
            THEN Finished(Checked(r, key), Result(RegisterValidation(r.data)))
            ELSE [Checked(r, key) EXCEPT !.pc = "createClient"]]
    /\ UNCHANGED <<now, lastSweep, returned, accounts, gateVars, pageVars, pollVars, ctxVars>>

\* logout(): nothing before `await createClient()`.
LogoutStart(i) ==
    /\ CanStart(i)
    /\ inv' = [inv EXCEPT ![i] = Started("logout", NoHeaders, NoData, "createClient")]
    /\ UNCHANGED <<limiterVars, accounts, gateVars, pageVars, pollVars, ctxVars>>

\* resendVerificationEmail(email) up to `await createClient()`.
ResendStart(i, data) ==
    /\ CanStart(i)
    /\ inv' = [inv EXCEPT ![i] =
            IF ResendValidation(data) # Null
            THEN Finished(Started("resend", NoHeaders, data, "idle"),
                          Result(ResendValidation(data)))
            ELSE Started("resend", NoHeaders, data, "createClient")]
    /\ UNCHANGED <<limiterVars, accounts, gateVars, pageVars, pollVars, ctxVars>>

\* createClient() resolves and the action calls the provider.
CallProvider(i) ==
    /\ inv[i].pc = "createClient"
    /\ inv' = [inv EXCEPT ![i].pc = "provider", ![i].contacts = @ + 1]
    /\ UNCHANGED <<limiterVars, accounts, gateVars, pageVars, pollVars, ctxVars>>

\* The accounts of the run that differs only in whether email has an account.
TwinAccounts(accts, email, account) ==
    [e \in (IF email \in DOMAIN accts THEN DOMAIN accts \ {email}
            ELSE DOMAIN accts \cup {email}) |->
        IF e = email THEN account ELSE accts[e]]

TwinAccountChoices == {Account(p, c) : p \in {Password1, Password2}, c \in BOOLEAN}

\* History: what the provider's answer held.
ResponseShape(response) ==
    IF response.kind # "ok" THEN response.kind
    ELSE IF response.user /\ response.session THEN "user+session"
    ELSE IF response.user THEN "user"
    ELSE IF response.session THEN "session"
    ELSE "empty"

\* signInWithPassword answers and login maps the answer.
LoginReturn(i, fault) ==
    LET r == inv[i]
        email == SanitizeInput(r.data.email)
        password == r.data.password IN
    /\ r.op = "login" /\ r.pc = "provider"
    /\ \E other \in TwinAccountChoices :
        LET twins == TwinAccounts(accounts, email, other)
            existing == IF email \in DOMAIN accounts THEN accounts[email] ELSE other IN
        inv' = [inv EXCEPT ![i] =
            [r EXCEPT !.pc = "done",
                      !.result = LoginOutcome(SignInWithPassword(accounts, email, password, fault)),
                      !.response = ResponseShape(SignInWithPassword(accounts, email, password, fault)),
                      !.providerMessage = SignInWithPassword(accounts, email, password, fault).message,
                      !.twin = LoginOutcome(SignInWithPassword(twins, email, password, fault)),
                      !.wrongPassword = (existing.password # password)]]
    /\ UNCHANGED <<limiterVars, accounts, gateVars, pageVars, pollVars, ctxVars>>

\* signUp answers (creating the account when it accepts) and register maps
\* the answer.
RegisterReturn(i, fault, confirmRequired) ==
    LET r == inv[i]
        email == SanitizeInput(r.data.email)
        password == r.data.password
        response == SignUp(accounts, email, password, fault, confirmRequired)
        twins == TwinAccounts(accounts, email, Account(password, TRUE)) IN
    /\ r.op = "register" /\ r.pc = "provider"
    /\ inv' = [inv EXCEPT ![i] =
            [r EXCEPT !.pc = "done",
                      !.result = RegisterOutcome(response),
                      !.response = ResponseShape(response),
                      !.providerMessage = response.message,
                      !.fault = fault,
                      !.existed = (email \in DOMAIN accounts),
                      !.twin = RegisterOutcome(SignUp(twins, email, password, fault, confirmRequired))]]
    /\ accounts' = IF response.kind = "ok" /\ response.user
                   THEN MapSet(accounts, email, Account(password, ~confirmRequired))
                   ELSE accounts
    /\ UNCHANGED <<limiterVars, gateVars, pageVars, pollVars, ctxVars>>

LogoutReturn(i, fault) ==
    /\ inv[i].op = "logout" /\ inv[i].pc = "provider"
    /\ inv' = [inv EXCEPT ![i] = Finished(inv[i], LogoutOutcome(SignOut(fault)))]
    /\ UNCHANGED <<limiterVars, accounts, gateVars, pageVars, pollVars, ctxVars>>

ResendReturn(i, fault) ==
    /\ inv[i].op = "resend" /\ inv[i].pc = "provider"
    /\ inv' = [inv EXCEPT ![i] =
            Finished(inv[i], ResendOutcome(Resend(SanitizeInput(inv[i].data.email), fault)))]
    /\ UNCHANGED <<limiterVars, accounts, gateVars, pageVars, pollVars, ctxVars>>

\* ------------------------------------------------------------- middleware
PathLogin == <<"/", "l", "o", "g", "i", "n">>
PathLoginHistory == <<"/", "l", "o", "g", "i", "n", "-", "h", "i", "s", "t", "o", "r", "y">>
PathRegister == <<"/", "r", "e", "g", "i", "s", "t", "e", "r">>
PathAuthCallback == <<"/", "a", "u", "t", "h", "/", "c", "a", "l", "l", "b", "a", "c", "k">>
PathNextChunk == <<"/", "_", "n", "e", "x", "t", "/", "s", "t", "a", "t", "i", "c", "/", "a", ".", "j", "s">>
PathFavicon == <<"/", "f", "a", "v", "i", "c", "o", "n", ".", "i", "c", "o">>
PathApiPolls == <<"/", "a", "p", "i", "/", "p", "o", "l", "l", "s">>
PathApiary == <<"/", "a", "p", "i", "a", "r", "y">>
PathPolls == <<"/", "p", "o", "l", "l", "s">>
PathPoll1 == <<"/", "p", "o", "l", "l", "s", "/", "1">>
PathRoot == <<"/">>
PathLogoUpper == <<"/", "l", "o", "g", "o", ".", "P", "N", "G">>
PathCreate == <<"/", "c", "r", "e", "a", "t", "e">>
Paths ==
    {PathLogin, PathLoginHistory, PathRegister, PathAuthCallback,
     PathNextChunk, PathFavicon, PathApiPolls, PathApiary,
     PathPolls, PathPoll1, PathRoot, PathLogoUpper,
     PathCreate}

StartsWith(s, prefix) ==
    /\ Len(s) >= Len(prefix)
    /\ SubSeq(s, 1, Len(prefix)) = prefix

EndsWith(s, suffix) ==
    /\ Len(s) >= Len(suffix)
    /\ SubSeq(s, Len(s) - Len(suffix) + 1, Len(s)) = suffix

LowerLetters == <<"a", "b", "c", "d", "e", "f", "g", "h", "i", "j", "k", "l", "m",
                  "n", "o", "p", "q", "r", "s", "t", "u", "v", "w", "x", "y", "z">>
UpperLetters == <<"A", "B", "C", "D", "E", "F", "G", "H", "I", "J", "K", "L", "M",
                  "N", "O", "P", "Q", "R", "S", "T", "U", "V", "W", "X", "Y", "Z">>
ToLowerChar(c) ==
    IF c \in UpperCase
    THEN LowerLetters[CHOOSE i \in 1..Len(UpperLetters) : UpperLetters[i] = c]
    ELSE c
ToLower(s) == [i \in 1..Len(s) |-> ToLowerChar(s[i])]

PublicPaths ==
    {<<"/", "l", "o", "g", "i", "n">>,
     <<"/", "r", "e", "g", "i", "s", "t", "e", "r">>,
     <<"/", "a", "u", "t", "h">>,
     <<"/", "_", "n", "e", "x", "t">>,
     <<"/", "f", "a", "v", "i", "c", "o", "n", ".", "i", "c", "o">>,
     <<"/", "a", "p", "i">>}

IsPublicPathNever(pathname) == FALSE
\* publicPaths.some(path => pathname.startsWith(path))
IsPublicPath(pathname) == \E path \in PublicPaths : StartsWith(pathname, path)

StaticExtensions ==
    {<<"s", "v", "g">>, <<"p", "n", "g">>, <<"j", "p", "g">>, <<"j", "p", "e", "g">>,
     <<"g", "i", "f">>, <<"w", "e", "b", "p">>, <<"i", "c", "o">>, <<"c", "s", "s">>,
     <<"j", "s">>}

\* /\.(svg|png|jpg|jpeg|gif|webp|ico|css|js)$/i.test(pathname)
IsStaticFile(pathname) ==
    \E ext \in StaticExtensions : EndsWith(ToLower(pathname), <<".">> \o ext)

NoHeadersSet == [n \in {} |-> ""]
NoLocation == [pathname |-> <<>>, redirect |-> <<>>]

\* NextResponse.next({request})
NextResponseNext(cookies) ==
    [kind |-> "next", headers |-> NoHeadersSet, cookies |-> cookies, location |-> NoLocation]

\* NextResponse.redirect(url)
NextResponseRedirect(url) ==
    [kind |-> "redirect", headers |-> NoHeadersSet, cookies |-> FALSE, location |-> url]

\* The four supabaseResponse.headers.set calls.
SetSecurityHeaders(response) ==
    [response EXCEPT !.headers =
        MapSet(MapSet(MapSet(MapSet(@,
            "X-Frame-Options", "DENY"),
            "X-Content-Type-Options", "nosniff"),
            "Referrer-Policy", "strict-origin-when-cross-origin"),
            "X-XSS-Protection", "1; mode=block")]

\* url = request.nextUrl.clone(); url.pathname = '/login';
\* url.searchParams.set('redirect', request.nextUrl.pathname)
LoginUrl(pathname) == [pathname |-> PathLogin, redirect |-> pathname]

NeedsLoginAlways(pathname, user) == ~user
NeedsLogin(pathname, user) ==
    /\ ~(IsPublicPath(pathname) \/ IsStaticFile(pathname))
    /\ ~user

\* updateSession from the resolution of getUser() to its return;
\* supabaseResponse is the response the cookie handlers left.
UpdateSessionResponse(supabaseResponse, pathname, user) ==
    IF NeedsLogin(pathname, user)
    THEN NextResponseRedirect(LoginUrl(pathname))
    ELSE SetSecurityHeaders(supabaseResponse)

IdleGate ==
    [pc |-> "idle", pathname |-> <<>>, user |-> FALSE, setAll |-> FALSE,
     response |-> NextResponseNext(FALSE)]

\* updateSession(request) up to `await supabase.auth.getUser()`.
GateReceive(pathname) ==
    /\ gate.pc \in {"idle", "responded"}
    /\ gate' = [IdleGate EXCEPT !.pc = "getUser", !.pathname = pathname]
    /\ UNCHANGED <<limiterVars, authVars, cookie, pageVars, pollVars, ctxVars>>

\* getUser() resolves. A valid session gives the user; an expired one is
\* refreshed (setAll rewrites the cookies and replaces supabaseResponse) or
\* dropped; no session gives no user.
GateResolve(refreshed) ==
    LET user == cookie = "valid" \/ (cookie = "expired" /\ refreshed)
        setAll == cookie = "expired"
        supabaseResponse == IF setAll THEN NextResponseNext(TRUE) ELSE gate.response IN
    /\ gate.pc = "getUser"
    /\ gate' = [gate EXCEPT !.pc = "responded", !.user = user, !.setAll = setAll,
                            !.response = UpdateSessionResponse(supabaseResponse, gate.pathname, user)]
    /\ cookie' = IF cookie = "expired" THEN (IF refreshed THEN "valid" ELSE "none") ELSE cookie
    /\ UNCHANGED <<limiterVars, authVars, pageVars, pollVars, ctxVars>>

\* The browser's session changes between requests: sign-in, sign-out, expiry.
CookieChange(c) ==
    /\ gate.pc \in {"idle", "responded"}
    /\ c # cookie
    /\ cookie' = c
    /\ UNCHANGED <<limiterVars, authVars, gate, pageVars, pollVars, ctxVars>>

\* ------------------------------------------------------------- login page
\* application/x-www-form-urlencoded, as URLSearchParams serialises and parses:
\* letters, digits and * - . _ stay, a space becomes +, any other character
\* its %XX code.
PercentCodes ==
    [c \in {"/", "%", "+", "&", "=", "?", ":"} |->
        CASE c = "/" -> <<"%", "2", "F">>
          [] c = ":" -> <<"%", "3", "A">>
          [] c = "%" -> <<"%", "2", "5">>
          [] c = "+" -> <<"%", "2", "B">>
          [] c = "&" -> <<"%", "2", "6">>
          [] c = "=" -> <<"%", "3", "D">>
          [] c = "?" -> <<"%", "3", "F">>]

RECURSIVE FormEncode(_)
FormEncode(s) ==
    IF s = <<>> THEN <<>>
    ELSE (IF Head(s) = " " THEN <<"+">>
          ELSE IF Head(s) \in DOMAIN PercentCodes THEN PercentCodes[Head(s)]
          ELSE <<Head(s)>>) \o FormEncode(Tail(s))

RECURSIVE FormDecode(_)
FormDecode(s) ==
    IF s = <<>> THEN <<>>
    ELSE IF Head(s) = "+" THEN <<" ">> \o FormDecode(Tail(s))
    ELSE IF Len(s) >= 3 /\ \E c \in DOMAIN PercentCodes : PercentCodes[c] = SubSeq(s, 1, 3)
    THEN <<CHOOSE c \in DOMAIN PercentCodes : PercentCodes[c] = SubSeq(s, 1, 3)>>
            \o FormDecode(SubSeq(s, 4, Len(s)))
    ELSE <<Head(s)>> \o FormDecode(Tail(s))

\* s.indexOf(c) + 1: 0 when c does not occur.
IndexOf(s, c) ==
    IF \E i \in 1..Len(s) : s[i] = c
    THEN CHOOSE i \in 1..Len(s) : s[i] = c /\ \A j \in 1..(i - 1) : s[j] # c
    ELSE 0

RECURSIVE SplitOn(_, _)
SplitOn(s, c) ==
    IF IndexOf(s, c) = 0 THEN <<s>>
    ELSE <<SubSeq(s, 1, IndexOf(s, c) - 1)>>
            \o SplitOn(SubSeq(s, IndexOf(s, c) + 1, Len(s)), c)

IsNotEmpty(s) == s # <<>>

SearchPair(field) ==
    IF IndexOf(field, "=") = 0
    THEN [name |-> FormDecode(field), value |-> <<>>]
    ELSE [name |-> FormDecode(SubSeq(field, 1, IndexOf(field, "=") - 1)),
          value |-> FormDecode(SubSeq(field, IndexOf(field, "=") + 1, Len(field)))]

\* new URLSearchParams(window.location.search)
URLSearchParams(search) ==
    LET query == IF search # <<>> /\ Head(search) = "?" THEN Tail(search) ELSE search
        fields == SelectSeq(SplitOn(query, "&"), IsNotEmpty) IN
    [i \in 1..Len(fields) |-> SearchPair(fields[i])]

\* urlParams.get(name): the first value of that name, or null.
SearchParamsGet(params, name) ==
    IF \E i \in 1..Len(params) : params[i].name = name
    THEN [found |-> TRUE,
          value |-> params[IndexOf([i \in 1..Len(params) |-> params[i].name], name)].value]
    ELSE [found |-> FALSE, value |-> <<>>]

ParamRedirect == <<"r", "e", "d", "i", "r", "e", "c", "t">>

\* The Location header of NextResponse.redirect(url): url.toString() without
\* the origin.
Href(url) == url.pathname \o <<"?">> \o ParamRedirect \o <<"=">> \o FormEncode(url.redirect)

\* The browser taking a URL apart into window.location.
ParseHref(href) ==
    IF IndexOf(href, "?") = 0
    THEN [pathname |-> href, search |-> <<>>]
    ELSE [pathname |-> SubSeq(href, 1, IndexOf(href, "?") - 1),
          search |-> SubSeq(href, IndexOf(href, "?"), Len(href))]

\* redirectPath || '/polls'
RedirectTargetDefault(search) == PathPolls
RedirectTarget(search) ==
    LET redirectPath == SearchParamsGet(URLSearchParams(search), ParamRedirect) IN
    IF redirectPath.found /\ redirectPath.value # <<>> THEN redirectPath.value ELSE PathPolls

PathOdd == <<"/", "p", "+", "q", "&", "r", "=", "1", "%", "2", "0", "x">>
JourneyPaths == {PathLogin, PathRegister, PathPolls, PathPoll1, PathRoot, PathCreate, PathOdd}

\* The site of this application, and the URL parser's resolution of the string
\* assigned to window.location.href against a page of that site: a string with
\* a scheme or a leading // names its own host, any other a path of the site.
AppHost == <<"a", "p", "p">>
SchemeHttps == <<"h", "t", "t", "p", "s", ":">>

ResolveHref(href) ==
    LET rest == IF StartsWith(href, SchemeHttps)
                THEN SubSeq(href, Len(SchemeHttps) + 1, Len(href)) ELSE href
        authority == SubSeq(rest, 3, Len(rest)) IN
    IF StartsWith(rest, <<"/", "/">>)
    THEN IF IndexOf(authority, "/") = 0
         THEN [host |-> authority, path |-> <<"/">>]
         ELSE [host |-> SubSeq(authority, 1, IndexOf(authority, "/") - 1),
               path |-> SubSeq(authority, IndexOf(authority, "/"), Len(authority))]
    ELSE [host |-> AppHost, path |-> href]

NoJourney == [following |-> FALSE, origin |-> <<>>, landed |-> <<>>, host |-> AppHost]
BlankPage == [pathname |-> <<>>, search |-> <<>>]

\* The browser follows the redirect: it requests the Location it was given,
\* and updateSession runs for that request up to `await getUser()`.
FollowRedirect ==
    /\ gate.pc = "responded"
    /\ gate.response.kind = "redirect"
    /\ location' = ParseHref(Href(gate.response.location))
    /\ journey' = [following |-> TRUE, origin |-> gate.pathname, landed |-> <<>>,
                   host |-> AppHost]
    /\ gate' = [IdleGate EXCEPT !.pc = "getUser",
                                !.pathname = ParseHref(Href(gate.response.location)).pathname]
    /\ UNCHANGED <<limiterVars, authVars, cookie, pollVars, ctxVars>>

\* The browser shows the page the middleware let through.
BrowserLoad ==
    /\ gate.pc = "responded"
    /\ gate.response.kind = "next"
    /\ location' = IF journey.following THEN location
                   ELSE [pathname |-> gate.pathname, search |-> <<>>]
    /\ journey' = IF journey.following THEN [journey EXCEPT !.following = FALSE]
                  ELSE NoJourney
    /\ gate' = IdleGate
    /\ UNCHANGED <<limiterVars, authVars, cookie, pollVars, ctxVars>>

\* LoginPage.handleSubmit up to `await login(...)`.
HandleSubmit(i, headers, data) ==
    /\ journey.host = AppHost
    /\ location.pathname = PathLogin
    /\ gate.pc = "idle"
    /\ inv[i].pc = "idle"
    /\ LoginStart(i, headers, data)

\* LoginPage.handleSubmit after login returned: show the error, or navigate
\* (the assignment to window.location.href sends the next request).
HandleSubmitDone(i) ==
    LET target == ResolveHref(RedirectTarget(location.search)) IN
    /\ inv[i].op = "login" /\ inv[i].pc = "done"
    /\ inv' = [inv EXCEPT ![i] = IdleInv]
    /\ IF inv[i].result.error # Null
       THEN UNCHANGED <<location, journey, gate>>
       ELSE /\ location' = ParseHref(target.path)
            /\ journey' = [journey EXCEPT !.landed = ParseHref(target.path).pathname,
                                          !.host = target.host]
            /\ gate' = IF target.host = AppHost
                       THEN [IdleGate EXCEPT !.pc = "getUser",
                                             !.pathname = ParseHref(target.path).pathname]
                       ELSE IdleGate
    /\ UNCHANGED <<limiterVars, accounts, cookie, pollVars, ctxVars>>

\* Links to the login page as anyone can write them, with a redirect
\* parameter naming another site.
UrlElsewhere == <<"h", "t", "t", "p", "s", ":", "/", "/", "e", "v", "i", "l", "/", "x">>
UrlSchemeRelative == <<"/", "/", "e", "v", "i", "l">>
LoginLinks ==
    {PathLogin \o <<"?">> \o ParamRedirect \o <<"=">> \o value :
        value \in {FormEncode(UrlElsewhere), UrlElsewhere, FormEncode(UrlSchemeRelative)}}

\* The user opens such a link: the browser requests the login page, and
\* updateSession runs for that request up to `await getUser()`.
OpenLink(href) ==
    /\ gate.pc = "idle"
    /\ inv[1].pc = "idle"
    /\ location' = ParseHref(href)
    /\ journey' = [NoJourney EXCEPT !.following = TRUE]
    /\ gate' = [IdleGate EXCEPT !.pc = "getUser", !.pathname = ParseHref(href).pathname]
    /\ UNCHANGED <<limiterVars, authVars, cookie, pollVars, ctxVars>>

\* ------------------------------------------------------------ poll actions
\* The database: tables polls and votes with the row level security policies
\* of the schema. auth.uid() is the user of the caller's session, Null when
\* the caller has none.
Users == {"u1", "u2"}
Callers == Users \cup {Null}
PollIds == 1..MaxPolls

Questions == {"", "Q1", "Q2"}
OptionLists == {<<"a", "b">>, <<"a", "", "c">>, <<"a", "">>}
FormData(question, options) == [question |-> question, options |-> options]

IsTruthy(x) == x # ""

\* formData.getAll("options").filter(Boolean)
GetOptions(formData) == SelectSeq(formData.options, IsTruthy)

\* !question || options.length < 2
PollInvalid(formData) == formData.question = "" \/ Len(GetOptions(formData)) < 2

PollRow(user_id, question, options) ==
    [user_id |-> user_id, question |-> question, options |-> options]
VoteRow(poll_id, user_id, option_index) ==
    [poll_id |-> poll_id, user_id |-> user_id, option_index |-> option_index]

NoPolls == [rows |-> [id \in {} |-> PollRow(Null, "", <<>>)], serial |-> 0]
NoCall == [op |-> "none", id |-> 0, user |-> Null, error |-> Null]

\* CREATE POLICY ... ON polls FOR INSERT WITH CHECK (auth.uid() = user_id)
PolicyInsertPoll(uid, row) == uid # Null /\ uid = row.user_id
\* CREATE POLICY ... ON polls FOR UPDATE USING (auth.uid() = user_id)
PolicyUpdatePoll(uid, row) == uid # Null /\ uid = row.user_id
\* CREATE POLICY ... ON polls FOR DELETE USING (auth.uid() = user_id)
PolicyDeletePollAny(uid, row) == TRUE
PolicyDeletePoll(uid, row) == uid # Null /\ uid = row.user_id
\* CREATE POLICY ... ON votes FOR INSERT WITH CHECK (true)
PolicyInsertVote(uid, row) == TRUE

\* supabase.from("polls").insert([row]): id from gen_random_uuid().
InsertPoll(db, uid, row) ==
    IF PolicyInsertPoll(uid, row)
    THEN [rows |-> MapSet(db.rows, db.serial + 1, row), serial |-> db.serial + 1]
    ELSE db

\* supabase.from("polls").update({question, options}).eq("id", pollId).eq("user_id", userId)
UpdatePollRows(db, uid, pollId, userId, question, options) ==
    [db EXCEPT !.rows =
        [id \in DOMAIN db.rows |->
            IF id = pollId /\ db.rows[id].user_id = userId /\ PolicyUpdatePoll(uid, db.rows[id])
            THEN [db.rows[id] EXCEPT !.question = question, !.options = options]
            ELSE db.rows[id]]]

\* supabase.from("polls").delete().eq("id", id)
DeletePollRows(db, uid, pollId) ==
    [db EXCEPT !.rows =
        [id \in {x \in DOMAIN db.rows :
                    ~(x = pollId /\ PolicyDeletePoll(uid, db.rows[x]))} |-> db.rows[id]]]

\* votes.poll_id REFERENCES polls(id) ON DELETE CASCADE
IsVoteOfLivePoll(db, vote) == vote.poll_id \in DOMAIN db.rows
CascadeVotes(vs, db) == SelectSeq(vs, LAMBDA vote : IsVoteOfLivePoll(db, vote))

\* supabase.auth.getUser(): the session's user, none, or an error.
GetUserOutcomes(caller) ==
    {[user |-> caller, error |-> Null], [user |-> Null, error |-> "Auth session missing!"]}

\* createPoll(formData)
CreatePoll(caller, formData) ==
    /\ polls.serial < MaxPolls
    /\ \E session \in GetUserOutcomes(caller) :
        LET error == IF PollInvalid(formData)
                     THEN "Please provide a question and at least two options."
                     ELSE IF session.error # Null THEN session.error
                     ELSE IF session.user = Null
                     THEN "You must be logged in to create a poll."
                     ELSE Null IN
        /\ polls' = IF error = Null
                    THEN InsertPoll(polls, caller,
                            PollRow(session.user, formData.question, GetOptions(formData)))
                    ELSE polls
        /\ pollCall' = [op |-> "createPoll", id |-> 0, user |-> caller, error |-> error]
    /\ UNCHANGED <<limiterVars, authVars, gateVars, pageVars, votes, ctxVars>>

\* updatePoll(pollId, formData)
UpdatePoll(caller, pollId, formData) ==
    /\ \E session \in GetUserOutcomes(caller) :
        LET error == IF PollInvalid(formData)
                     THEN "Please provide a question and at least two options."
                     ELSE IF session.error # Null THEN session.error
                     ELSE IF session.user = Null
                     THEN "You must be logged in to update a poll."
                     ELSE Null IN
        /\ polls' = IF error = Null
                    THEN UpdatePollRows(polls, caller, pollId, session.user,
                            formData.question, GetOptions(formData))
                    ELSE polls
        /\ pollCall' = [op |-> "updatePoll", id |-> pollId, user |-> caller, error |-> error]
    /\ UNCHANGED <<limiterVars, authVars, gateVars, pageVars, votes, ctxVars>>

\* deletePoll(id)
DeletePoll(caller, id) ==
    /\ polls' = DeletePollRows(polls, caller, id)
    /\ votes' = CascadeVotes(votes, DeletePollRows(polls, caller, id))
    /\ pollCall' = [op |-> "deletePoll", id |-> id, user |-> caller, error |-> Null]
    /\ UNCHANGED <<limiterVars, authVars, gateVars, pageVars, ctxVars>>

\* submitVote(pollId, optionIndex)
SubmitVote(caller, pollId, optionIndex) ==
    /\ Len(votes) < MaxVotes
    /\ \E session \in GetUserOutcomes(caller) :
        LET row == VoteRow(pollId, session.user, optionIndex)
            accepted == pollId \in DOMAIN polls.rows /\ PolicyInsertVote(caller, row) IN
        /\ votes' = IF accepted THEN Append(votes, row) ELSE votes
        /\ pollCall' = [op |-> "submitVote", id |-> pollId, user |-> caller,
                        error |-> IF accepted THEN Null
                                  ELSE "insert or update on table \"votes\" violates foreign key constraint"]
    /\ UNCHANGED <<limiterVars, authVars, gateVars, pageVars, polls, ctxVars>>


\* ------------------------------------------------------------- AuthProvider
\* The context value {session, user, loading} with the state of the effect:
\* mounted, the initial getUser() call, the number of auth-state-change events
\* received and (history) the session the latest of them delivered.
Sessions == {"s1", "s2"}

\* session?.user ?? null
SessionUser(session) ==
    IF session = Null THEN Null ELSE IF session = "s1" THEN "u1" ELSE "u2"

NoEvent == "none"
NoContext ==
    [session |-> Null, user |-> Null, loading |-> TRUE,
     mounted |-> FALSE, getUser |-> "none", events |-> 0, latest |-> NoEvent]

\* The effect runs: getUser() is called and the listener subscribed.
Mount ==
    /\ ~context.mounted /\ context.getUser = "none"
    /\ context' = [context EXCEPT !.mounted = TRUE, !.getUser = "pending"]
    /\ UNCHANGED <<limiterVars, authVars, gateVars, pageVars, pollVars>>

\* supabase.auth.getUser() resolves with data.user (null with an error).
GetUserResolved(user) ==
    /\ context.getUser = "pending"
    /\ context' = IF context.mounted
                  THEN [context EXCEPT !.getUser = "done", !.user = user,
                                       !.session = Null, !.loading = FALSE]
                  ELSE [context EXCEPT !.getUser = "done"]
    /\ UNCHANGED <<limiterVars, authVars, gateVars, pageVars, pollVars>>

\* The onAuthStateChange callback runs for an event with this session.
AuthStateChange(session) ==
    /\ context.mounted
    /\ context.events < MaxEvents
    /\ context' = [context EXCEPT !.session = session, !.user = SessionUser(session),
                                  !.events = @ + 1, !.latest = session]
    /\ UNCHANGED <<limiterVars, authVars, gateVars, pageVars, pollVars>>

\* The effect's cleanup: mounted = false, listener unsubscribed.
Unmount ==
    /\ context.mounted
    /\ context' = [context EXCEPT !.mounted = FALSE]
    /\ UNCHANGED <<limiterVars, authVars, gateVars, pageVars, pollVars>>
\* ----------------------------------------------------------- specifications
LimiterInit ==
    /\ attemptStore = [k \in {} |-> FreshEntry(0)]
    /\ now = 0
    /\ lastSweep = 0
    /\ returned = NoReturn
    /\ hist = [k \in {} |-> [start |-> 0, calls |-> 0, last |-> 0, allowed |-> 0]]
    /\ unswept = [k \in {} |-> FreshEntry(0)]

AuthInit ==
    /\ inv = [i \in Slots |-> IdleInv]
    /\ accounts \in {NoAccounts, MapSet(NoAccounts, EmailSent1, Account(Password1, TRUE))}

GateInit == cookie = "none" /\ gate = IdleGate

PageInit == location = BlankPage /\ journey = NoJourney

PollInit == polls = NoPolls /\ votes = <<>> /\ pollCall = NoCall

ContextInit == context = NoContext

AppInit == GateInit /\ PageInit /\ PollInit /\ ContextInit

\* The rate limiter under direct calls.
Init == LimiterInit /\ inv = [i \in Slots |-> IdleInv] /\ accounts = NoAccounts /\ AppInit

Next ==
    \/ \E k \in LimiterKeys : Check(k)
    \/ \E k \in LimiterKeys : Clear(k)
    \/ Sweep
    \/ Tick

Spec == Init /\ [][Next]_vars

\* The four server actions, one invocation at a time.
InitAuth == LimiterInit /\ AuthInit /\ AppInit

NextAuth ==
    \/ \E h \in HeaderChoices, d \in LoginForms : LoginStart(1, h, d)
    \/ LoginCheck(1)
    \/ \E f \in SignInFaults : LoginReturn(1, f)
    \/ \E d \in RegisterForms : RegisterStart(1, ForwardedHeaders, d)
    \/ RegisterCheck(1)
    \/ \E f \in SignUpFaults, c \in BOOLEAN : RegisterReturn(1, f, c)
    \/ LogoutStart(1)
    \/ \E f \in SignOutFaults : LogoutReturn(1, f)
    \/ \E d \in ResendForms : ResendStart(1, d)
    \/ \E f \in ResendFaults : ResendReturn(1, f)
    \/ CallProvider(1)

SpecAuth == InitAuth /\ [][NextAuth]_vars

\* Logins of one client in flight together, with time passing.
InitConcurrent ==
    /\ LimiterInit /\ AppInit
    /\ inv = [i \in Slots |-> IdleInv]
    /\ accounts = MapSet(NoAccounts, EmailSent1, Account(Password1, TRUE))

NextConcurrent ==
    \/ \E i \in Slots : LoginStart(i, ForwardedHeaders, Form(<<>>, Email1, Password1))
    \/ \E i \in Slots : LoginCheck(i)
    \/ \E i \in Slots : CallProvider(i)
    \/ \E i \in Slots : LoginReturn(i, "none")
    \/ Sweep
    \/ (now < MaxConcurrentTime /\ Tick)

SpecConcurrent == InitConcurrent /\ [][NextConcurrent]_vars

\* The middleware, request after request.
InitGate ==
    /\ LimiterInit /\ AppInit
    /\ inv = [i \in Slots |-> IdleInv]
    /\ accounts = NoAccounts

NextGate ==
    \/ \E p \in Paths : GateReceive(p)
    \/ \E refreshed \in BOOLEAN : GateResolve(refreshed)
    \/ \E c \in {"none", "valid", "expired"} : CookieChange(c)

SpecGate == InitGate /\ [][NextGate]_vars

\* The browser: a request through the middleware, the page shown, and the
\* login form submitted on the login page.
InitJourney ==
    /\ LimiterInit /\ AppInit
    /\ inv = [i \in Slots |-> IdleInv]
    /\ accounts = MapSet(NoAccounts, EmailSent1, Account(Password1, TRUE))

NextJourney ==
    \/ \E p \in JourneyPaths : (gate.pc = "idle" /\ inv[1].pc = "idle" /\ GateReceive(p))
    \/ \E refreshed \in BOOLEAN : GateResolve(refreshed)
    \/ \E c \in {"none", "valid", "expired"} :
            (gate.pc = "idle" /\ inv[1].pc = "idle" /\ CookieChange(c))
    \/ FollowRedirect
    \/ BrowserLoad
    \/ \E d \in {Form(<<>>, Email1, Password1), Form(<<>>, Email1, Password2)} :
            HandleSubmit(1, ForwardedHeaders, d)
    \/ LoginCheck(1)
    \/ CallProvider(1)
    \/ \E f \in {"none", "other"} : LoginReturn(1, f)
    \/ HandleSubmitDone(1)

SpecJourney == InitJourney /\ [][NextJourney]_vars

\* The same browser, which also opens links to the login page written by
\* others.
NextLinks ==
    \/ NextJourney
    \/ \E href \in LoginLinks : OpenLink(href)

SpecLinks == InitJourney /\ [][NextLinks]_vars

\* The poll actions, called by any caller in any order.
InitPolls ==
    /\ LimiterInit /\ AppInit
    /\ inv = [i \in Slots |-> IdleInv]
    /\ accounts = NoAccounts

NextPolls ==
    \/ \E c \in Callers, q \in Questions, o \in OptionLists : CreatePoll(c, FormData(q, o))
    \/ \E c \in Callers, id \in PollIds, q \in Questions, o \in OptionLists :
            UpdatePoll(c, id, FormData(q, o))
    \/ \E c \in Callers, id \in PollIds : DeletePoll(c, id)

SpecPolls == InitPolls /\ [][NextPolls]_vars

\* Votes cast on polls that are created and deleted meanwhile.
NextVotes ==
    \/ \E c \in Users : CreatePoll(c, FormData("Q1", <<"a", "b">>))
    \/ \E c \in Callers, id \in PollIds : DeletePoll(c, id)
    \/ \E c \in Callers, id \in PollIds, n \in 0..1 : SubmitVote(c, id, n)

SpecVotes == InitPolls /\ [][NextVotes]_vars

\* The rate limiter over more than the retention time: one client's logins,
\* and single registrations beside them.
NextSweep ==
    \/ Check(RateKey("login", Addr7))
    \/ (RateKey("register", Addr7) \notin DOMAIN attemptStore
            /\ Check(RateKey("register", Addr7)))
    \/ Clear(RateKey("login", Addr7))
    \/ Sweep
    \/ TickLong

SpecSweep == Init /\ [][NextSweep]_vars

\* login against every answer of signInWithPassword.
InitLogin ==
    /\ LimiterInit /\ AppInit
    /\ inv = [i \in Slots |-> IdleInv]
    /\ accounts \in {NoAccounts,
                      MapSet(NoAccounts, EmailSent1, Account(Password1, TRUE)),
                      MapSet(NoAccounts, EmailSent1, Account(Password1, FALSE))}

NextLogin ==
    \/ \E h \in HeaderChoices, d \in LoginForms : LoginStart(1, h, d)
    \/ LoginCheck(1)
    \/ CallProvider(1)
    \/ \E f \in SignInFaults \cup SignInMixedFaults : LoginReturn(1, f)

SpecLogin == InitLogin /\ [][NextLogin]_vars

\* Logins of several clients, told apart by their address headers only: one
\* that sends no address header, and one that sends any of the header sets
\* (those with an address for a single login each).
InitClients ==
    /\ LimiterInit /\ AppInit
    /\ inv = [i \in Slots |-> IdleInv]
    /\ accounts = NoAccounts

NextClients ==
    \/ \E h \in ClientHeaders :
            /\ h = NoHeaders \/ RateKey("login", GetClientIP(h)) \notin DOMAIN attemptStore
            /\ LoginStart(1, h, Form(<<>>, Email1, <<>>))
    \/ LoginStart(2, NoHeaders, Form(<<>>, Email1, <<>>))
    \/ \E i \in Slots : LoginCheck(i)
    \/ Sweep
    \/ (now < MaxConcurrentTime /\ Tick)

SpecClients == InitClients /\ [][NextClients]_vars

\* register over many forms, each as the first registration of its client
\* (a handful of them also later): the field checks and what reaches the
\* provider.
InitForms ==
    /\ LimiterInit /\ AppInit
    /\ inv = [i \in Slots |-> IdleInv]
    /\ accounts = NoAccounts

NextForms ==
    \/ (inv[1].pc = "idle" /\ \E d \in FormInputs : RegisterStart(1, ForwardedHeaders, d))
    \/ (inv[1].pc = "done" /\ \E d \in RegisterForms : RegisterStart(1, ForwardedHeaders, d))
    \/ RegisterCheck(1)
    \/ CallProvider(1)
    \/ \E c \in BOOLEAN : RegisterReturn(1, "none", c)

SpecForms == InitForms /\ [][NextForms]_vars

\* AuthProvider: the initial getUser() and the auth events in any order.
InitProvider ==
    /\ LimiterInit /\ AppInit
    /\ inv = [i \in Slots |-> IdleInv]
    /\ accounts = NoAccounts

NextProvider ==
    \/ Mount
    \/ \E user \in {Null, "u1", "u2"} : GetUserResolved(user)
    \/ \E session \in Sessions \cup {Null} : AuthStateChange(session)
    \/ Unmount

SpecProvider == InitProvider /\ [][NextProvider]_vars


\* ------------------------------------------------------------------ claims
LoginKey == RateKey("login", Addr7)
RegisterKey == RateKey("register", Addr7)

\* C1: starting from no live entry, of maxAttempts+1 checks of one identifier
\* that all lie within windowDuration of the first, the first maxAttempts are
\* allowed and the (maxAttempts+1)-th is denied.
C1_FirstMaxAllowedNextDenied ==
    \A k \in DOMAIN hist :
        (returned.identifier = k /\ now - hist[k].start <= WindowOf(k)) =>
            /\ hist[k].calls <= MaxAttemptsOf(k) => returned.allowed
            /\ hist[k].calls = MaxAttemptsOf(k) + 1 => ~returned.allowed

C1_Witness ==
    /\ returned.identifier = LoginKey
    /\ LoginKey \in DOMAIN hist
    /\ hist[LoginKey].calls = LOGIN_MAX_ATTEMPTS + 1
    /\ now - hist[LoginKey].start <= LOGIN_WINDOW
    /\ now > hist[LoginKey].start
    /\ ~returned.allowed

\* C2 (as claimed): a check made more than windowDuration after the check that
\* created or last reset the entry resets count to 1 and is allowed, whatever
\* attempts were made in between.
C2_WindowFixedAtCreation ==
    [][\A k \in LimiterKeys :
        (Check(k) /\ k \in DOMAIN hist /\ now - hist[k].start > WindowOf(k)) =>
            (attemptStore'[k].count = 1 /\ returned'.allowed)]_vars

\* C2 (amended): the window is measured from the identifier's latest check. A
\* check made more than windowDuration after the latest check of an existing
\* entry resets count to 1 and is allowed with maxAttempts-1 remaining; a check
\* made within windowDuration of the latest check never resets: it raises
\* count by one, however long ago the entry was created or reset.
C2_WindowSlidesWithLastAttempt ==
    [][\A k \in LimiterKeys :
        (Check(k) /\ k \in DOMAIN hist) =>
            IF now - hist[k].last > WindowOf(k)
            THEN /\ attemptStore'[k].count = 1
                 /\ returned'.allowed
                 /\ returned'.remainingAttempts = MaxAttemptsOf(k) - 1
            ELSE /\ k \in DOMAIN attemptStore
                 /\ attemptStore'[k].count = attemptStore[k].count + 1]_vars

C2_Witness ==
    /\ returned.identifier = LoginKey
    /\ LoginKey \in DOMAIN hist
    /\ now - hist[LoginKey].start > LOGIN_WINDOW
    /\ attemptStore[LoginKey].count > 1

\* C6: a check or a clear of one identifier leaves every other identifier's
\* entry, and so the decision its next check returns, as they were.
OtherUntouched(k, j) ==
    /\ (j \in DOMAIN attemptStore') = (j \in DOMAIN attemptStore)
    /\ j \in DOMAIN attemptStore => attemptStore'[j] = attemptStore[j]
    /\ CheckRateLimit(attemptStore', j, MaxAttemptsOf(j), WindowOf(j), now).result
         = CheckRateLimit(attemptStore, j, MaxAttemptsOf(j), WindowOf(j), now).result

C6_OnlyOwnEntryTouched ==
    [][\A k \in LimiterKeys :
        (Check(k) \/ Clear(k)) => \A j \in LimiterKeys \ {k} : OtherUntouched(k, j)]_vars

C6_Witness ==
    /\ LoginKey \in DOMAIN attemptStore
    /\ attemptStore[LoginKey].blocked
    /\ returned.identifier = RegisterKey
    /\ returned.allowed
    /\ attemptStore[RegisterKey].count > 1

\* C3: when login succeeds, the entry of login:<client> is removed, so that
\* earlier attempts no longer count.
C3_SuccessfulLoginClearsEntry ==
    \A i \in Slots :
        (inv[i].op = "login" /\ inv[i].pc = "done" /\ inv[i].contacts = 1
            /\ inv[i].result.error = Null) =>
        RateKey("login", GetClientIP(inv[i].headers)) \notin DOMAIN attemptStore

\* C4: login and register contact the provider at most once per invocation,
\* and only after the limiter allowed the invocation and every field check
\* passed; the 6th login of one client within the window is answered with the
\* rate-limit error and no provider call.
LoginFieldsOk(d) ==
    /\ d.email # <<>> /\ d.password # <<>>
    /\ ValidateEmail(SanitizeInput(d.email))

RegisterFieldsOk(d) ==
    /\ d.email # <<>> /\ d.password # <<>> /\ d.name # <<>>
    /\ ValidateEmail(SanitizeInput(d.email))
    /\ Len(SanitizeInput(d.name)) \in 2..50
    /\ NameRegexTest(SanitizeInput(d.name))
    /\ ValidatePassword(d.password).isValid

LoginRateLimitErrors ==
    {"Too many login attempts. Please try again after " \o ToString(t) :
        t \in 0..(MaxTime + LOGIN_WINDOW)}
RegisterRateLimitErrors ==
    {"Too many registration attempts. Please try again after " \o ToString(t) :
        t \in 0..(MaxTime + REGISTER_WINDOW)}

C4_ProviderOnlyAfterChecks ==
    \A i \in Slots :
        LET r == inv[i] IN
        /\ r.contacts <= 1
        /\ (r.op = "login" /\ r.contacts >= 1) =>
                (r.limiter = "allowed" /\ LoginFieldsOk(r.data))
        /\ (r.op = "register" /\ r.contacts >= 1) =>
                (r.limiter = "allowed" /\ RegisterFieldsOk(r.data))
        /\ (r.op = "login" /\ r.nth > LOGIN_MAX_ATTEMPTS /\ r.inWindow) =>
                (r.pc = "done" /\ r.contacts = 0 /\ r.result.error \in LoginRateLimitErrors)

C4_Witness ==
    /\ inv[1].op = "login" /\ inv[1].pc = "done"
    /\ inv[1].nth = LOGIN_MAX_ATTEMPTS + 1
    /\ LoginFieldsOk(inv[1].data)
    /\ inv[1].contacts = 0
    /\ RegisterKey \in DOMAIN attemptStore

\* C5: with several logins of one client in flight, every check is one atomic
\* step: k checks inside one window leave count = k, and at most maxAttempts
\* of them were allowed.
C5_ChecksAtomic ==
    \A k \in DOMAIN hist :
        (hist[k].last - hist[k].start <= WindowOf(k)) =>
            /\ k \in DOMAIN attemptStore
            /\ attemptStore[k].count = hist[k].calls
            /\ hist[k].allowed <= MaxAttemptsOf(k)

C5_Witness ==
    /\ inv[1].pc = "provider"
    /\ inv[2].pc = "done" /\ inv[2].limiter = "denied"
    /\ LoginKey \in DOMAIN hist
    /\ hist[LoginKey].calls = LOGIN_MAX_ATTEMPTS + 1
    /\ hist[LoginKey].last - hist[LoginKey].start = LOGIN_WINDOW

\* C7: whatever the provider does (success, an error with any text, an
\* exception), each action returns a result whose error is null or one of the
\* enumerated messages, never the provider's text.
EnumeratedErrors ==
    {Null,
     "Email and password are required",
     "Please enter a valid email address",
     "Password is required",
     "Invalid email or password",
     "Please verify your email address before signing in",
     "Too many login attempts. Please try again later",
     "Authentication failed. Please try again",
     "An unexpected error occurred. Please try again",
     "Name, email, and password are required",
     "Name must be at least 2 characters long",
     "Name must be less than 50 characters long",
     "Name can only contain letters, spaces, hyphens, and apostrophes",
     "Password must be at least 8 characters long",
     "Password must be less than 128 characters",
     "Password must contain at least one lowercase letter",
     "Password must contain at least one uppercase letter",
     "Password must contain at least one number",
     "Password must contain at least one special character",
     "An account with this email already exists",
     "Password does not meet security requirements",
     "Registration is currently disabled",
     "Registration failed. Please try again",
     "Failed to sign out. Please try again",
     "An unexpected error occurred during sign out",
     "Email is required",
     "Too many verification emails sent. Please wait before requesting another",
     "Failed to send verification email. Please try again"}
    \cup LoginRateLimitErrors \cup RegisterRateLimitErrors

C7_ErrorsEnumerated ==
    \A i \in Slots :
        inv[i].pc = "done" =>
            /\ inv[i].result.error \in EnumeratedErrors
            /\ inv[i].result.error \notin ProviderTexts

C7_Witness ==
    /\ inv[1].pc = "done" /\ inv[1].op = "register" /\ inv[1].contacts = 1
    /\ inv[1].result.error = "Registration failed. Please try again"

HasHeader(response, name, value) ==
    /\ name \in DOMAIN response.headers
    /\ response.headers[name] = value

C9_EveryResponseHasSecurityHeaders ==
    gate.pc = "responded" =>
        /\ HasHeader(gate.response, "X-Frame-Options", "DENY")
        /\ HasHeader(gate.response, "X-Content-Type-Options", "nosniff")
        /\ HasHeader(gate.response, "Referrer-Policy", "strict-origin-when-cross-origin")
        /\ HasHeader(gate.response, "X-XSS-Protection", "1; mode=block")

\* C10: the middleware redirects exactly the requests whose path is neither
\* public nor a static file and that resolve no principal, whatever requests
\* came before.
OpenPaths ==
    {PathLogin, PathLoginHistory, PathRegister, PathAuthCallback, PathNextChunk,
     PathFavicon, PathApiPolls, PathApiary, PathLogoUpper}

C10_RedirectIffProtectedAndAnonymous ==
    gate.pc = "responded" =>
        /\ (gate.response.kind = "redirect") <=>
                (gate.pathname \notin OpenPaths /\ ~gate.user)
        /\ gate.response.kind \in {"redirect", "next"}

C10_Witness ==
    /\ gate.pc = "responded"
    /\ gate.pathname = PathPolls
    /\ gate.setAll /\ ~gate.user
    /\ gate.response.kind = "redirect"

\* C11: a redirected request for protected path P arrives at /login with
\* query parameter redirect = P, and a successful login on that page then
\* navigates to P; a successful login on a login page without the parameter
\* navigates to /polls.
C11_RedirectThenLoginReturns ==
    /\ (journey.origin # <<>> /\ journey.landed = <<>>) =>
            /\ location.pathname = PathLogin
            /\ SearchParamsGet(URLSearchParams(location.search), ParamRedirect)
                    = [found |-> TRUE, value |-> journey.origin]
    /\ journey.landed # <<>> =>
            /\ journey.landed = (IF journey.origin # <<>> THEN journey.origin ELSE PathPolls)
            /\ location = [pathname |-> journey.landed, search |-> <<>>]
            /\ gate.pathname = journey.landed

C11_Witness ==
    /\ journey.origin = PathOdd
    /\ journey.landed = PathOdd
    /\ gate.pc = "getUser"

C11_WitnessDefault ==
    /\ journey.origin = <<>>
    /\ journey.landed = PathPolls

\* C12: register returns requiresVerification = TRUE exactly when signUp
\* succeeded with a user and no session, and a result with error = null and
\* no requiresVerification flag only when signUp returned a session.
C12_PlainSuccessHasSession ==
    \A i \in Slots :
        (inv[i].op = "register" /\ inv[i].pc = "done" /\ inv[i].contacts = 1) =>
            /\ inv[i].result.requiresVerification <=> (inv[i].response = "user")
            /\ (inv[i].result.error = Null /\ ~inv[i].result.requiresVerification) =>
                    inv[i].response \in {"user+session", "session"}

\* C13: a rejected login returns the message of the first rule, in the order
\* credentials, unconfirmed, rate, that the provider's message matches, else
\* the generic message; an accepted login returns error = null and nothing else.
ExpectedLoginError ==
    [message \in {<<"Invalid login credentials">>,
                  <<"Email not confirmed">>,
                  <<"AuthApiError: ", "Too many requests">>,
                  <<"Database error granting user">>,
                  <<"Too many requests", "; ", "Invalid login credentials">>,
                  <<"Too many requests", "; ", "Email not confirmed">>,
                  <<"Email not confirmed", "; ", "Invalid login credentials">>} |->
        IF message[Len(message)] = "Invalid login credentials"
        THEN "Invalid email or password"
        ELSE IF "Email not confirmed" \in {message[1], message[Len(message)]}
        THEN "Please verify your email address before signing in"
        ELSE IF message = <<"Database error granting user">>
        THEN "Authentication failed. Please try again"
        ELSE "Too many login attempts. Please try again later"]

C13_LoginErrorByFirstRule ==
    \A i \in Slots :
        (inv[i].op = "login" /\ inv[i].pc = "done" /\ inv[i].contacts = 1) =>
            /\ inv[i].response = "error" =>
                    /\ inv[i].providerMessage \in DOMAIN ExpectedLoginError
                    /\ inv[i].result = Result(ExpectedLoginError[inv[i].providerMessage])
            /\ inv[i].response = "user+session" => inv[i].result = Result(Null)
            /\ inv[i].response \in {"error", "user+session", "throw"}

C13_Witness ==
    /\ inv[1].op = "login" /\ inv[1].pc = "done" /\ inv[1].contacts = 1
    /\ inv[1].providerMessage = <<"Too many requests", "; ", "Email not confirmed">>
    /\ inv[1].result.error = "Please verify your email address before signing in"

\* C14: a second register with the same valid fields, the account of the
\* first now existing, returns 'An account with this email already exists';
\* every failure answer of signUp maps to one of five messages, never to the
\* provider's text.
ExpectedRegisterError ==
    [message \in {<<"User already registered">>,
                  <<"Password should be", " at least 6 characters">>,
                  <<"Unable to validate email address", ": invalid format">>,
                  <<"Signup is disabled">>,
                  <<"Database error saving new user">>} |->
        CASE message[1] = "User already registered" ->
                "An account with this email already exists"
          [] message[1] = "Password should be" ->
                "Password does not meet security requirements"
          [] message[1] = "Unable to validate email address" ->
                "Please enter a valid email address"
          [] message[1] = "Signup is disabled" ->
                "Registration is currently disabled"
          [] OTHER -> "Registration failed. Please try again"]

C14_RegisterErrorsMapped ==
    \A i \in Slots :
        (inv[i].op = "register" /\ inv[i].pc = "done" /\ inv[i].contacts = 1) =>
            /\ (inv[i].existed /\ inv[i].fault = "none") =>
                    inv[i].result = Result("An account with this email already exists")
            /\ inv[i].response = "error" =>
                    /\ inv[i].providerMessage \in DOMAIN ExpectedRegisterError
                    /\ inv[i].result = Result(ExpectedRegisterError[inv[i].providerMessage])
                    /\ inv[i].result.error # RawText(inv[i].providerMessage)

C14_Witness ==
    /\ inv[1].op = "register" /\ inv[1].pc = "done" /\ inv[1].contacts = 1
    /\ inv[1].existed /\ inv[1].fault = "none"
    /\ inv[1].data = Form(Name1, Email1, Password1)
    /\ EmailSent1 \in DOMAIN accounts
    /\ accounts[EmailSent1] = Account(Password1, FALSE)
    /\ attemptStore[RegisterKey].count = 2
    /\ inv[1].result.error = "An account with this email already exists"

\* C15: every login records exactly one attempt under login:<client> and
\* every register exactly one under register:<client>, whatever the fields
\* and the outcome; no other entry changes, and no other step of any action
\* (logout and resendVerificationEmail included) changes the store.
ExpectedClient(headers) ==
    IF headers = ForwardedHeaders THEN <<"7">> ELSE <<"u", "n", "k", "n", "o", "w", "n">>

RecordsOneAttempt(st, st2, key) ==
    /\ key \in DOMAIN st2
    /\ st2[key].count = (IF key \in DOMAIN st THEN st[key].count + 1 ELSE 1)
    /\ DOMAIN st2 = DOMAIN st \cup {key}
    /\ \A k \in DOMAIN st \ {key} : st2[k] = st[k]

C15_OneAttemptPerInvocation ==
    [][/\ \A i \in Slots :
            (inv[i].pc = "headers" /\ inv'[i].pc # "headers") =>
                /\ inv[i].op \in {"login", "register"}
                /\ RecordsOneAttempt(attemptStore, attemptStore',
                                     <<inv[i].op, ExpectedClient(inv[i].headers)>>)
                /\ (inv'[i].limiter = "denied") =
                        (attemptStore'[<<inv[i].op, ExpectedClient(inv[i].headers)>>].count
                            > (IF inv[i].op = "login" THEN 5 ELSE 3))
       /\ attemptStore' # attemptStore =>
            \E i \in Slots : inv[i].pc = "headers" /\ inv'[i].pc # "headers"
       /\ \A i \in Slots :
            (inv[i].pc # "done" /\ inv'[i].pc = "done") =>
                (inv'[i].limiter # "none") = (inv'[i].op \in {"login", "register"})]_vars

C15_Witness ==
    /\ inv[1].op = "login" /\ inv[1].pc = "done"
    /\ inv[1].data = Form(<<>>, Email1, <<>>)
    /\ inv[1].headers = NoHeaders
    /\ inv[1].result.error = "Email and password are required"
    /\ <<"login", Unknown>> \in DOMAIN attemptStore
    /\ attemptStore[<<"login", Unknown>>].count = 2
    /\ <<"register", Addr7>> \in DOMAIN attemptStore

\* C16: a run of the sweep removes exactly the entries whose last attempt is
\* more than one hour (12 units) old and changes no other entry; with a sweep
\* every 5 minutes (1 unit) no entry outlives its last attempt by more than
\* 1 hour 5 minutes.
C16_SweepRemovesOldOnly ==
    [][/\ Sweep =>
            /\ DOMAIN attemptStore' \subseteq DOMAIN attemptStore
            /\ \A k \in DOMAIN attemptStore :
                    IF now - hist[k].last > 12
                    THEN k \notin DOMAIN attemptStore'
                    ELSE k \in DOMAIN attemptStore' /\ attemptStore'[k] = attemptStore[k]
       /\ \A k \in DOMAIN attemptStore' :
            /\ now' - hist'[k].last <= 13
            /\ lastSweep' = now' => now' - hist'[k].last <= 12]_vars

C16_Witness ==
    /\ LoginKey \in DOMAIN attemptStore
    /\ attemptStore[LoginKey].blocked
    /\ now - attemptStore[LoginKey].lastAttempt = 13
    /\ lastSweep = now - 1
    /\ RegisterKey \in DOMAIN attemptStore
    /\ now - attemptStore[RegisterKey].lastAttempt = 12

\* C17: when the last check of an identifier is the one that started its
\* window and the next check comes more than windowDuration later, that check
\* returns what a check of a never-seen identifier returns and leaves the
\* entry such a check leaves, whatever the count and the blocked flag were.
NeverSeen == [k \in {} |-> [count |-> 0, lastAttempt |-> 0, blocked |-> FALSE]]

C17_IdleWindowResets ==
    [][\A k \in LimiterKeys :
        (/\ Check(k)
         /\ k \in DOMAIN hist
         /\ hist[k].last = hist[k].start
         /\ now - hist[k].start > WindowOf(k)) =>
            /\ returned'.allowed
            /\ returned'.remainingAttempts = MaxAttemptsOf(k) - 1
            /\ returned'.resetTime = now + WindowOf(k)
            /\ attemptStore'[k] = [count |-> 1, lastAttempt |-> now, blocked |-> FALSE]
            /\ attemptStore'[k] =
                    CheckRateLimit(NeverSeen, k, MaxAttemptsOf(k), WindowOf(k), now).store[k]]_vars

C17_Witness ==
    /\ LoginKey \in DOMAIN attemptStore
    /\ attemptStore[LoginKey].blocked
    /\ attemptStore[LoginKey].count = LOGIN_MAX_ATTEMPTS + 1
    /\ hist[LoginKey].last = hist[LoginKey].start
    /\ now - hist[LoginKey].start = LOGIN_WINDOW + 1

\* C18: clear followed by check gives the decision and the entry of a check of
\* a never-seen identifier, whatever the state before; clear of an identifier
\* without an entry changes nothing.
C18_ClearThenCheckIsFresh ==
    [][\A k \in LimiterKeys :
        Clear(k) =>
            /\ k \notin DOMAIN attemptStore => attemptStore' = attemptStore
            /\ \A j \in DOMAIN attemptStore \ {k} :
                    j \in DOMAIN attemptStore' /\ attemptStore'[j] = attemptStore[j]
            /\ LET after == CheckRateLimit(attemptStore', k, MaxAttemptsOf(k), WindowOf(k), now')
                    fresh == CheckRateLimit(NeverSeen, k, MaxAttemptsOf(k), WindowOf(k), now') IN
               /\ after.result = fresh.result
               /\ after.result.allowed
               /\ after.result.remainingAttempts = MaxAttemptsOf(k) - 1
               /\ after.store[k] = [count |-> 1, lastAttempt |-> now', blocked |-> FALSE]]_vars

C18_Witness ==
    /\ returned = NoReturn
    /\ LoginKey \notin DOMAIN attemptStore
    /\ LoginKey \notin DOMAIN hist
    /\ RegisterKey \in DOMAIN attemptStore
    /\ attemptStore[RegisterKey].blocked
    /\ lastSweep = now /\ now = 0

C20_OneVotePerVoter ==
    \A i, j \in 1..Len(votes) :
        (i # j /\ votes[i].poll_id = votes[j].poll_id /\ votes[i].user_id # Null) =>
            votes[i].user_id # votes[j].user_id

\* C21 (as claimed): a denied check returns remainingAttempts = 0 and a
\* resetTime equal to the start of the identifier's current window plus
\* windowDuration, so that all denied checks inside one window return the same
\* resetTime.
C21_DeniedResetFromWindowStart ==
    \A k \in DOMAIN hist :
        (returned.identifier = k /\ ~returned.allowed) =>
            /\ returned.remainingAttempts = 0
            /\ returned.resetTime = hist[k].start + WindowOf(k)

\* C21 (amended): a denied check returns remainingAttempts = 0 and a resetTime
\* equal to the time of that very check plus windowDuration (the check has
\* moved lastAttempt), so denied checks made at different times return
\* different resetTimes; an allowed check that did not open a window returns
\* remainingAttempts = maxAttempts - count.
C21_DeniedResetFromThisCheck ==
    \A k \in DOMAIN hist :
        returned.identifier = k =>
            /\ ~returned.allowed =>
                    /\ returned.remainingAttempts = 0
                    /\ returned.resetTime = now + WindowOf(k)
                    /\ attemptStore[k].lastAttempt = now
                    /\ attemptStore[k].blocked
            /\ (returned.allowed /\ hist[k].calls > 1) =>
                    /\ attemptStore[k].count = hist[k].calls
                    /\ returned.remainingAttempts = MaxAttemptsOf(k) - attemptStore[k].count
                    /\ returned.remainingAttempts >= 0

C21_Witness ==
    /\ returned.identifier = LoginKey
    /\ ~returned.allowed
    /\ hist[LoginKey].calls = LOGIN_MAX_ATTEMPTS + 2
    /\ now > hist[LoginKey].start
    /\ returned.resetTime # hist[LoginKey].start + LOGIN_WINDOW

\* C22: the client identifier is the first comma-separated address of
\* x-forwarded-for, trimmed, when that header is there, else x-real-ip when that
\* is there, else 'unknown'; callers with neither header share the bucket
\* login:unknown, so that after 5 logins by any of them within 15 minutes the
\* next login by any other of them is denied.
ExpectedIdentifier(headers) ==
    CASE headers = ForwardedHeaders -> <<"7">>
      [] headers = ForwardedPadded -> <<"7">>
      [] headers = RealIPHeaders -> <<"9">>
      [] headers = NoHeaders -> <<"u", "n", "k", "n", "o", "w", "n">>

C22_ClientIdentifier ==
    [][\A i \in Slots :
        (inv[i].pc = "headers" /\ inv'[i].pc # "headers") =>
            LET key == <<"login", ExpectedIdentifier(inv[i].headers)>> IN
            /\ key \in DOMAIN attemptStore'
            /\ attemptStore'[key].lastAttempt = now
            /\ attemptStore'[key].count = hist'[key].calls
            /\ \A k \in DOMAIN attemptStore' \ {key} :
                    k \in DOMAIN attemptStore /\ attemptStore'[k] = attemptStore[k]
            /\ inv'[i].nth = hist'[key].calls
            /\ (inv'[i].nth > LOGIN_MAX_ATTEMPTS /\ now - hist'[key].start <= LOGIN_WINDOW) =>
                    (inv'[i].limiter = "denied" /\ inv'[i].pc = "done")]_vars

C22_Witness ==
    /\ inv[1].pc = "done" /\ inv[1].headers = NoHeaders
    /\ inv[1].nth = LOGIN_MAX_ATTEMPTS /\ inv[1].limiter = "allowed"
    /\ inv[2].pc = "done" /\ inv[2].headers = NoHeaders
    /\ inv[2].nth = LOGIN_MAX_ATTEMPTS + 1 /\ inv[2].limiter = "denied"
    /\ now - hist[<<"login", Unknown>>].start = LOGIN_WINDOW
    /\ <<"login", <<"7">>>> \in DOMAIN attemptStore
    /\ <<"login", <<"9">>>> \in DOMAIN attemptStore

\* C23: validatePassword accepts a password exactly when its length is between
\* 8 and 128 and it holds a lowercase letter, an uppercase letter, a digit and
\* a symbol of the punctuation set; a rejected password gets exactly one
\* reason, that of the first violated rule in the order too short, too long,
\* no lowercase, no uppercase, no digit, no symbol.
Contains(s, set) == {i \in 1..Len(s) : s[i] \in set} # {}

ViolatedRules(password) ==
    <<Len(password) < 8,
      Len(password) > 128,
      ~Contains(password, LowerCase),
      ~Contains(password, UpperCase),
      ~Contains(password, Digits),
      ~Contains(password, SpecialChars)>>

PasswordReasons ==
    <<"Password must be at least 8 characters long",
      "Password must be less than 128 characters",
      "Password must contain at least one lowercase letter",
      "Password must contain at least one uppercase letter",
      "Password must contain at least one number",
      "Password must contain at least one special character">>

FirstViolated(password) ==
    LET rules == ViolatedRules(password) IN
    IF \E n \in 1..6 : rules[n]
    THEN CHOOSE n \in 1..6 : rules[n] /\ \A m \in 1..(n - 1) : ~rules[m]
    ELSE 0

C23_PasswordFirstViolatedRule ==
    \A i \in Slots :
        inv[i].op = "register" =>
            LET password == inv[i].data.password
                first == FirstViolated(password) IN
            /\ ValidatePassword(password).isValid = (first = 0)
            /\ first # 0 => ValidatePassword(password).message = PasswordReasons[first]
            /\ (inv[i].limiter = "allowed" /\ inv[i].data.name = Name1
                    /\ inv[i].data.email = Email1 /\ password # <<>> /\ first # 0) =>
                    /\ inv[i].pc = "done" /\ inv[i].contacts = 0
                    /\ inv[i].result.error = PasswordReasons[first]
            /\ (inv[i].limiter = "allowed" /\ inv[i].data.name = Name1
                    /\ inv[i].data.email = Email1 /\ first = 0) =>
                    (inv[i].pc # "done" \/ inv[i].contacts = 1)

\* A password of 128 characters, whose only lowercase letter stands behind a
\* line break, is accepted; so is one of 8 characters.
C23_Witness ==
    /\ inv[1].op = "register" /\ inv[1].pc = "provider"
    /\ Len(inv[1].data.password) = 128
    /\ inv[1].data.password[125] = "\n"
    /\ inv[1].data.password[126] = "a"
    /\ ValidatePassword(inv[1].data.password).isValid
    /\ attemptStore[RegisterKey].count = 1

\* C24: register passes a name to the provider only if the sanitized name has
\* length 2 to 50 and each of its characters is a letter, a space, a hyphen or
\* an apostrophe; a name with any other character, such as a tab or a line
\* break, is rejected with a validation error and the provider is not
\* contacted.
PlainNameChars == LowerCase \cup UpperCase \cup {" ", "-", "'"}

IsPlainName(name) ==
    /\ Len(name) >= 2 /\ Len(name) <= 50
    /\ \A k \in 1..Len(name) : name[k] \in PlainNameChars

C24_OnlyPlainNamesReachProvider ==
    \A i \in Slots :
        inv[i].op = "register" =>
            LET name == SanitizeInput(inv[i].data.name) IN
            /\ inv[i].contacts >= 1 => IsPlainName(name)
            /\ (inv[i].limiter = "allowed" /\ ~IsPlainName(name)) =>
                    /\ inv[i].pc = "done" /\ inv[i].contacts = 0
                    /\ inv[i].result.error # Null

\* C25: for every input s, sanitize(s) holds neither '<' nor '>', has no
\* leading or trailing whitespace, keeps the other characters in order, and is
\* a fixed point of sanitize; so the email and the name sent to the provider
\* never start or end with whitespace.
IsTrimmed(s) ==
    s = <<>> \/ (s[1] \notin Whitespace /\ s[Len(s)] \notin Whitespace)

C25_SanitizeCleanFixedPoint ==
    \A i \in Slots :
        inv[i].op = "register" =>
            /\ \A s \in {inv[i].data.email, inv[i].data.name} :
                    /\ \A k \in 1..Len(SanitizeInput(s)) : SanitizeInput(s)[k] \notin {"<", ">"}
                    /\ IsTrimmed(SanitizeInput(s))
                    /\ SelectSeq(SanitizeInput(s), IsNotAngle) = SelectSeq(Trim(s), IsNotAngle)
                    /\ SanitizeInput(SanitizeInput(s)) = SanitizeInput(s)
            /\ inv[i].contacts >= 1 =>
                    /\ IsTrimmed(SanitizeInput(inv[i].data.email))
                    /\ IsTrimmed(SanitizeInput(inv[i].data.name))

\* C26: the path /login, to which the middleware redirects, is public whoever
\* asks, so a request for it is never redirected: the request a browser sends
\* when it follows the middleware's redirect is passed through, and no
\* redirect is answered with another redirect.
C26_LoginNeverRedirected ==
    gate.pc = "responded" =>
            /\ gate.pathname = PathLogin => gate.response.kind = "next"
            /\ journey.following =>
                    (gate.pathname = PathLogin /\ gate.response.kind = "next")
            /\ gate.response.kind = "redirect" =>
                    /\ gate.response.location.pathname = PathLogin
                    /\ ParseHref(Href(gate.response.location)).pathname = PathLogin
                    /\ ~journey.following

C26_Witness ==
    /\ gate.pc = "responded"
    /\ journey.following
    /\ journey.origin = PathOdd
    /\ gate.pathname = PathLogin
    /\ ~gate.user
    /\ gate.response.kind = "next"

\* C27: a request without a principal passes the middleware only if its path
\* is one of the public entries, lies beneath one of them as a path segment
\* (the entry followed by '/'), or ends in a static-file extension; a path
\* that only shares a character prefix with a public entry (/login-history,
\* /apiary) is redirected to the login page.
IsListedOrBeneath(pathname) ==
    \E entry \in PublicPaths :
        pathname = entry \/ StartsWith(pathname, entry \o <<"/">>)

C27_AnonymousPassesListedPathsOnly ==
    (gate.pc = "responded" /\ ~gate.user) =>
        /\ gate.response.kind = "next" =>
                (IsListedOrBeneath(gate.pathname) \/ IsStaticFile(gate.pathname))
        /\ gate.pathname \in {PathLoginHistory, PathApiary} =>
                /\ gate.response.kind = "redirect"
                /\ gate.response.location.pathname = PathLogin

\* C28: in AuthProvider, however the completion of the initial getUser() and
\* the auth-state-change events interleave, once all of them are processed the
\* context's session is the session of the latest event and user is non-null
\* exactly when that session is: a late getUser() completion never overwrites
\* what a newer event has set.
C28_LatestEventWins ==
    (context.mounted /\ context.getUser = "done" /\ context.latest # NoEvent) =>
        /\ context.session = context.latest
        /\ (context.user # Null) = (context.session # Null)

\* C29: the sweep is invisible to callers: with both budgets in use (windows
\* of 15 and 60 minutes, neither longer than the retention time), in every
\* sequence of checks and clears with sweeps in between, each check returns
\* the decision, and leaves the entry, it returns and leaves in the same
\* sequence run without any sweep.
C29_SweepInvisible ==
    [][\A k \in LimiterKeys :
        Check(k) =>
            LET same == CheckRateLimit(unswept, k, MaxAttemptsOf(k), WindowOf(k), now) IN
            /\ returned'.allowed = same.result.allowed
            /\ returned'.remainingAttempts = same.result.remainingAttempts
            /\ returned'.resetTime = same.result.resetTime
            /\ attemptStore'[k] = same.store[k]
            /\ unswept'[k] = attemptStore'[k]]_vars

C29_Witness ==
    /\ returned.identifier = LoginKey
    /\ attemptStore[LoginKey].blocked
    /\ now - lastSweep <= 1 /\ lastSweep > RETENTION
    /\ RegisterKey \in DOMAIN unswept
    /\ RegisterKey \notin DOMAIN attemptStore

\* C30: after a successful login the login page navigates only to a path of
\* the application itself (the path the middleware wrote into the redirect
\* parameter, or /polls); a redirect parameter written by someone else that
\* names another site is never the navigation target.
C30_LoginStaysOnSite ==
    journey.landed # <<>> =>
        /\ journey.host = AppHost
        /\ journey.landed \in {journey.origin, PathPolls}
====
